---- MODULE Spec2Model ----
(***************************************************************************)
(* Model of the JSON remediation core of reynard-validation:               *)
(*   src/src/json-remediator.ts        (class JsonRemediator)              *)
(*   src/src/json-remediator-final.ts  (class JsonRemediatorFinal)         *)
(* A text is a sequence of one-character strings.  The strict parser       *)
(* (JSON.parse), the repair passes and the two entry points remediate and  *)
(* remediatePackageJson are operators computed the way the code computes   *)
(* them; the state machine applies them to inputs drawn from bounded sets. *)
(***************************************************************************)
EXTENDS Integers, Sequences, FiniteSets, TLC

(***************************************************************************)
(* Characters and character classes (ECMAScript regular expressions).      *)
(***************************************************************************)
QUOTE == "\""
BSLASH == "\\"
NL == "\n"
EOF == ""

Digits == {"0", "1", "2", "3", "4", "5", "6", "7", "8", "9"}
LowerSeq == <<"a", "b", "c", "d", "e", "f", "g", "h", "i", "j", "k", "l", "m",
              "n", "o", "p", "q", "r", "s", "t", "u", "v", "w", "x", "y", "z">>
UpperSeq == <<"A", "B", "C", "D", "E", "F", "G", "H", "I", "J", "K", "L", "M",
              "N", "O", "P", "Q", "R", "S", "T", "U", "V", "W", "X", "Y", "Z">>
Letters == {LowerSeq[i] : i \in 1..26} \cup {UpperSeq[i] : i \in 1..26}

\* \s of a regular expression, String.prototype.trim
IsSpace(c) == c \in {" ", "\t", "\n", "\r", "\f"}
\* \d
IsDigit(c) == c \in Digits
\* \w, the class \b is defined on
IsWordChar(c) == c \in Letters \/ c \in Digits \/ c = "_"
\* [a-zA-Z_$] and [a-zA-Z0-9_$]
IsIdentStart(c) == c \in Letters \/ c \in {"_", "$"}
IsIdentChar(c) == IsIdentStart(c) \/ c \in Digits

\* the character at index i (1-based), EOF outside the text
At(s, i) == IF i \in 1..Len(s) THEN s[i] ELSE EOF

(***************************************************************************)
(* String.prototype methods used by the passes.                            *)
(***************************************************************************)
Min(S) == CHOOSE x \in S : \A y \in S : x <= y
Max(S) == CHOOSE x \in S : \A y \in S : x >= y

\* the first index in S, or the index after the text (i itself when i is beyond it)
FirstOr(S, s, i) == IF S # {} THEN Min(S) ELSE IF i > Len(s) THEN i ELSE Len(s) + 1

\* the first index >= i whose character is not white space (a greedy \s* from i)
SkipSpace(s, i) == FirstOr({j \in i..Len(s) : ~IsSpace(s[j])}, s, i)

\* the last index <= i whose character is not white space (0 if none)
SkipSpaceBack(s, i) ==
  LET S == {j \in 1..i : ~IsSpace(s[j])} IN IF S = {} THEN 0 ELSE Max(S)

\* s.trim()
Trim(s) == SubSeq(s, SkipSpace(s, 1), SkipSpaceBack(s, Len(s)))

\* s.match(/^\s*/)[0].length
IndentLen(s) == SkipSpace(s, 1) - 1

\* s.startsWith(p), s.endsWith(p)
StartsWith(s, p) == Len(p) <= Len(s) /\ SubSeq(s, 1, Len(p)) = p
EndsWith(s, p) == Len(p) <= Len(s) /\ SubSeq(s, Len(s) - Len(p) + 1, Len(s)) = p

\* the word w occurs in s at index i
MatchAt(s, i, w) == \A d \in 1..Len(w) : At(s, i + d - 1) = w[d]

\* s.includes(c) for a one-character c
Includes(s, c) == \E i \in 1..Len(s) : s[i] = c

\* s.substring(a, b) with 0-based half-open bounds, clamped as substring does
Substring(s, a, b) ==
  LET lo == IF a < 0 THEN 0 ELSE IF a > Len(s) THEN Len(s) ELSE a
      hi == IF b < 0 THEN 0 ELSE IF b > Len(s) THEN Len(s) ELSE b
  IN  IF lo <= hi THEN SubSeq(s, lo + 1, hi) ELSE SubSeq(s, hi + 1, lo)

\* trimmed.slice(0, -1)
DropLast(s) == SubSeq(s, 1, Len(s) - 1)

\* the number of occurrences of the character c: (s.match(/c/g) || []).length
CountChar(s, c) == Cardinality({i \in 1..Len(s) : s[i] = c})

\* s.split("\n"): always at least one line; line k lies between the (k-1)-th
\* and the k-th line feed
SplitLines(s) ==
  LET Feeds == {i \in 1..Len(s) : s[i] = NL}
      Feed(k) == IF k = 0 THEN 0
                 ELSE IF k > Cardinality(Feeds) THEN Len(s) + 1
                 ELSE CHOOSE i \in Feeds : Cardinality({j \in Feeds : j <= i}) = k
  IN  [k \in 1..(Cardinality(Feeds) + 1) |-> SubSeq(s, Feed(k - 1) + 1, Feed(k) - 1)]

RECURSIVE JoinLines(_)
\* lines.join("\n")
JoinLines(ls) ==
  IF Len(ls) = 0 THEN <<>>
  ELSE IF Len(ls) = 1 THEN ls[1]
  ELSE ls[1] \o <<NL>> \o JoinLines(Tail(ls))

(***************************************************************************)
(* JSON.parse: the strict parser (ECMA-404 grammar).  A parse result is    *)
(* [ok, pos, val, err]: pos is the index after the value, or the index of  *)
(* the failure; err is the class of the SyntaxError message.               *)
(***************************************************************************)
ErrEnd == "Unexpected end of JSON input"
ErrToken == "Unexpected token"
ErrPropertyName == "Expected property name"

NullVal == [k |-> "null"]
BoolVal(b) == [k |-> "bool", b |-> b]
NumVal(zero) == [k |-> "num", zero |-> zero]
StrVal(s) == [k |-> "str", s |-> s]
ArrVal(items) == [k |-> "arr", items |-> items]
ObjVal(members) == [k |-> "obj", members |-> members]

POk(pos, val) == [ok |-> TRUE, pos |-> pos, val |-> val, err |-> ""]
PFail(s, pos) ==
  [ok |-> FALSE, pos |-> pos, val |-> NullVal,
   err |-> IF pos > Len(s) THEN ErrEnd ELSE ErrToken]
PFailName(s, pos) ==
  [ok |-> FALSE, pos |-> pos, val |-> NullVal,
   err |-> IF pos > Len(s) THEN ErrEnd ELSE ErrPropertyName]

\* JSON white space is space, tab, line feed and carriage return
IsJsonSpace(c) == c \in {" ", "\t", "\n", "\r"}
SkipJsonSpace(s, i) == FirstOr({j \in i..Len(s) : ~IsJsonSpace(s[j])}, s, i)

HexSeq == <<"0", "1", "2", "3", "4", "5", "6", "7", "8", "9",
            "a", "b", "c", "d", "e", "f">>
IsHex(c) == c \in Digits \/ c \in {"a", "b", "c", "d", "e", "f",
                                   "A", "B", "C", "D", "E", "F"}
HexVal(c) ==
  IF c \in {"A", "B", "C", "D", "E", "F"}
  THEN CHOOSE n \in 10..15 : UpperSeq[n - 9] = c
  ELSE (CHOOSE n \in 1..16 : HexSeq[n] = c) - 1

\* the character of a \uXXXX escape: the ASCII characters texts are made of,
\* one symbol per other code point
PrintableSeq == <<" ", "!", QUOTE, "#", "$", "%", "&", "'", "(", ")", "*", "+",
                  ",", "-", ".", "/", "0", "1", "2", "3", "4", "5", "6", "7",
                  "8", "9", ":", ";", "<", "=", ">", "?", "@">>
CharOfCode(n) ==
  IF n \in 32..64 THEN PrintableSeq[n - 31]
  ELSE IF n \in 65..90 THEN UpperSeq[n - 64]
  ELSE IF n \in 97..122 THEN LowerSeq[n - 96]
  ELSE IF n = 91 THEN "[" ELSE IF n = 92 THEN BSLASH ELSE IF n = 93 THEN "]"
  ELSE IF n = 95 THEN "_" ELSE IF n = 123 THEN "{" ELSE IF n = 125 THEN "}"
  ELSE IF n = 10 THEN "\n" ELSE IF n = 9 THEN "\t" ELSE IF n = 13 THEN "\r"
  ELSE IF n = 12 THEN "\f"
  ELSE "<other>"

\* the character a single-character escape denotes
EscapeChar(e) ==
  CASE e = "n" -> "\n" [] e = "t" -> "\t" [] e = "r" -> "\r" [] e = "f" -> "\f"
    [] e = "b" -> "<BS>" [] OTHER -> e

RECURSIVE ParseStringBody(_, _, _)
\* the characters of a string literal from index j on, up to the closing quote
ParseStringBody(s, j, acc) ==
  LET c == At(s, j) IN
  IF c = EOF THEN PFail(s, j)
  ELSE IF c = QUOTE THEN POk(j + 1, StrVal(acc))
  ELSE IF c = BSLASH THEN
    LET e == At(s, j + 1) IN
    IF e \in {QUOTE, BSLASH, "/", "b", "f", "n", "r", "t"}
    THEN ParseStringBody(s, j + 2, Append(acc, EscapeChar(e)))
    ELSE IF e = "u" THEN
      IF \A d \in 2..5 : IsHex(At(s, j + d))
      THEN ParseStringBody(s, j + 6,
             Append(acc, CharOfCode(4096 * HexVal(s[j + 2]) + 256 * HexVal(s[j + 3])
                                    + 16 * HexVal(s[j + 4]) + HexVal(s[j + 5]))))
      ELSE PFail(s, CHOOSE d \in (j + 2)..(j + 5) :
                      /\ ~IsHex(At(s, d))
                      /\ \A d2 \in (j + 2)..(d - 1) : IsHex(At(s, d2)))
    ELSE PFail(s, j + 1)
  ELSE IF c \in {"\n", "\t", "\r", "\f"} THEN PFail(s, j)
  ELSE ParseStringBody(s, j + 1, Append(acc, c))

\* the first index >= i whose character is not a digit (a greedy \d* from i)
SkipDigits(s, i) == FirstOr({j \in i..Len(s) : ~IsDigit(s[j])}, s, i)

\* a number literal at index i: -? (0 | [1-9][0-9]*) (. [0-9]+)? ([eE] [+-]? [0-9]+)?
ParseNumber(s, i) ==
  LET i1 == IF At(s, i) = "-" THEN i + 1 ELSE i
      i2 == IF At(s, i1) = "0" THEN i1 + 1 ELSE SkipDigits(s, i1)
      hasFrac == At(s, i2) = "."
      i3 == IF hasFrac THEN SkipDigits(s, i2 + 1) ELSE i2
      hasExp == At(s, i3) \in {"e", "E"}
      i4 == IF hasExp /\ At(s, i3 + 1) \in {"+", "-"} THEN i3 + 2 ELSE i3 + 1
      i5 == IF hasExp THEN SkipDigits(s, i4) ELSE i3
      zero == \A d \in i1..(i3 - 1) : s[d] \in {"0", "."}
  IN  IF i2 = i1 THEN PFail(s, i1)
      ELSE IF hasFrac /\ i3 = i2 + 1 THEN PFail(s, i3)
      ELSE IF hasExp /\ i5 = i4 THEN PFail(s, i4)
      ELSE POk(i5, NumVal(zero))

\* the literal word w at index i
ParseWord(s, i, w, val) ==
  IF \A d \in 1..Len(w) : At(s, i + d - 1) = w[d]
  THEN POk(i + Len(w), val)
  ELSE PFail(s, CHOOSE d \in i..(i + Len(w) - 1) :
                  /\ At(s, d) # w[d - i + 1]
                  /\ \A d2 \in i..(d - 1) : At(s, d2) = w[d2 - i + 1])

RECURSIVE ParseValue(_, _)
RECURSIVE ParseMembers(_, _, _)
RECURSIVE ParseElements(_, _, _)

\* the members of an object; i is the index of a member's key (after white space)
ParseMembers(s, i, acc) ==
  IF At(s, i) # QUOTE THEN PFailName(s, i)
  ELSE
    LET key == ParseStringBody(s, i + 1, <<>>) IN
    IF ~key.ok THEN key
    ELSE
      LET c == SkipJsonSpace(s, key.pos) IN
      IF At(s, c) # ":" THEN PFail(s, c)
      ELSE
        LET v == ParseValue(s, SkipJsonSpace(s, c + 1)) IN
        IF ~v.ok THEN v
        ELSE
          LET n == SkipJsonSpace(s, v.pos)
              acc2 == Append(acc, [key |-> key.val.s, val |-> v.val])
          IN  IF At(s, n) = "}" THEN POk(n + 1, ObjVal(acc2))
              ELSE IF At(s, n) = "," THEN ParseMembers(s, SkipJsonSpace(s, n + 1), acc2)
              ELSE PFail(s, n)

\* the elements of an array; i is the index of an element (after white space)
ParseElements(s, i, acc) ==
  LET v == ParseValue(s, i) IN
  IF ~v.ok THEN v
  ELSE
    LET n == SkipJsonSpace(s, v.pos)
        acc2 == Append(acc, v.val)
    IN  IF At(s, n) = "]" THEN POk(n + 1, ArrVal(acc2))
        ELSE IF At(s, n) = "," THEN ParseElements(s, SkipJsonSpace(s, n + 1), acc2)
        ELSE PFail(s, n)

\* a JSON value at index i (white space already skipped)
ParseValue(s, i) ==
  LET c == At(s, i) IN
  IF c = "{" THEN
    LET n == SkipJsonSpace(s, i + 1) IN
    IF At(s, n) = "}" THEN POk(n + 1, ObjVal(<<>>)) ELSE ParseMembers(s, n, <<>>)
  ELSE IF c = "[" THEN
    LET n == SkipJsonSpace(s, i + 1) IN
    IF At(s, n) = "]" THEN POk(n + 1, ArrVal(<<>>)) ELSE ParseElements(s, n, <<>>)
  ELSE IF c = QUOTE THEN ParseStringBody(s, i + 1, <<>>)
  ELSE IF c = "-" \/ IsDigit(c) THEN ParseNumber(s, i)
  ELSE IF c = "t" THEN ParseWord(s, i, <<"t", "r", "u", "e">>, BoolVal(TRUE))
  ELSE IF c = "f" THEN ParseWord(s, i, <<"f", "a", "l", "s", "e">>, BoolVal(FALSE))
  ELSE IF c = "n" THEN ParseWord(s, i, <<"n", "u", "l", "l">>, NullVal)
  ELSE PFail(s, i)

\* JSON.parse(s): ok with the value, or not ok (a SyntaxError is thrown)
JsonParse(s) ==
  LET v == ParseValue(s, SkipJsonSpace(s, 1)) IN
  IF ~v.ok THEN v
  ELSE
    LET n == SkipJsonSpace(s, v.pos) IN
    IF n > Len(s) THEN v ELSE [PFail(s, n) EXCEPT !.err = ErrToken]

(***************************************************************************)
(* A pass returns [text, errs]: the rewritten text and the types of the    *)
(* diagnostics it pushes on this.errors, in order.                         *)
(***************************************************************************)
MissingComma == "missing-comma"
TrailingComma == "trailing-comma"
MissingQuote == "missing-quote"
MalformedObject == "malformed-object"
MalformedArray == "malformed-array"
ParseErrorType == "parse-error"

PassResult(text, errs) == [text |-> text, errs |-> errs]

RECURSIVE Repeat(_, _)
\* n copies of the sequence x
Repeat(x, n) == IF n <= 0 THEN <<>> ELSE x \o Repeat(x, n - 1)

\* the first index >= i whose character is not in [a-zA-Z0-9_$]
SkipIdent(s, i) == FirstOr({j \in i..Len(s) : ~IsIdentChar(s[j])}, s, i)

\* ^ of a multiline regular expression matches at index i
AtLineStart(s, i) == i = 1 \/ s[i - 1] \in {"\n", "\r"}

(***************************************************************************)
(* class JsonRemediator                                                    *)
(***************************************************************************)
\* /^(\s*)([a-zA-Z_$][a-zA-Z0-9_$]*)\s*:/m matches at index i: the index of the
\* colon that ends the match (0: no match)
UnquotedPropertyEnd(s, i) ==
  LET j == SkipSpace(s, i)
      m == SkipSpace(s, SkipIdent(s, j))
  IN  IF AtLineStart(s, i) /\ IsIdentStart(At(s, j)) /\ At(s, m) = ":" THEN m ELSE 0

RECURSIVE FixMissingQuotesFrom(_, _, _, _)
\* replace of the pattern (flag g) from index i on: the leftmost match, then the rest
FixMissingQuotesFrom(s, i, out, errs) ==
  LET M == {p \in i..Len(s) : UnquotedPropertyEnd(s, p) # 0} IN
  IF M = {} THEN PassResult(out \o SubSeq(s, i, Len(s)), errs)
  ELSE
    LET p == Min(M)
        j == SkipSpace(s, p)
        k == SkipIdent(s, j)
    IN  FixMissingQuotesFrom(s, UnquotedPropertyEnd(s, p) + 1,
          out \o SubSeq(s, i, j - 1) \o <<QUOTE>> \o SubSeq(s, j, k - 1) \o <<QUOTE, ":">>,
          Append(errs, MissingQuote))

\* JsonRemediator.fixMissingQuotes
FixMissingQuotes(s) == FixMissingQuotesFrom(s, 1, <<>>, <<>>)

\* indent + trimmed + ",", where indent = line.substring(0, line.length - trimmed.length)
AddComma(line) ==
  LET trimmed == Trim(line)
      indent == Substring(line, 0, Len(line) - Len(trimmed))
  IN  indent \o trimmed \o <<",">>

\* indent + trimmed.slice(0, -1), with the same indent
RemoveLastChar(line) ==
  LET trimmed == Trim(line)
      indent == Substring(line, 0, Len(line) - Len(trimmed))
  IN  indent \o DropLast(trimmed)

\* nextLineTrimmed.startsWith('"') && nextLineTrimmed.includes(":")
LooksLikeProperty(nextLine) ==
  StartsWith(Trim(nextLine), <<QUOTE>>) /\ Includes(Trim(nextLine), ":")

\* the body of the loop of fixMissingCommas for one line and the line after it
FixMissingCommasLine(line0, nextLine) ==
  LET \* a property line that does not end with a comma
      C1(line) == /\ Includes(line, ":")
                  /\ ~EndsWith(Trim(line), <<",">>)
                  /\ ~EndsWith(Trim(line), <<"{">>)
                  /\ LooksLikeProperty(nextLine)
                  /\ IndentLen(nextLine) = IndentLen(line)
      \* a line ending with a closing brace or bracket
      C2(line) == /\ (EndsWith(Trim(line), <<"}">>) \/ EndsWith(Trim(line), <<"]">>))
                  /\ ~EndsWith(Trim(line), <<",">>)
                  /\ LooksLikeProperty(nextLine)
      \* a closing brace or bracket on a line of its own
      C3(line) == /\ (Trim(line) = <<"}">> \/ Trim(line) = <<"]">>)
                  /\ ~EndsWith(Trim(line), <<",">>)
                  /\ LooksLikeProperty(nextLine)
                  /\ IndentLen(nextLine) <= IndentLen(line)
      \* an array element
      C4(trimmed, nextLineTrimmed) ==
                  /\ trimmed # <<>>
                  /\ ~EndsWith(trimmed, <<",">>)
                  /\ ~EndsWith(trimmed, <<"[">>)
                  /\ ~EndsWith(trimmed, <<"]">>)
                  /\ ~EndsWith(trimmed, <<"{">>)
                  /\ nextLineTrimmed # <<>>
                  /\ ~StartsWith(nextLineTrimmed, <<"]">>)
                  /\ ~StartsWith(nextLineTrimmed, <<"}">>)
                  /\ ~Includes(trimmed, ":")
                  /\ \/ StartsWith(trimmed, <<QUOTE>>)
                     \/ IsDigit(At(trimmed, 1))
                     \/ trimmed = <<"t", "r", "u", "e">>
                     \/ trimmed = <<"f", "a", "l", "s", "e">>
                     \/ trimmed = <<"n", "u", "l", "l">>
      \* one if block: when its condition holds the line gets a comma and a
      \* diagnostic is pushed
      Block(r, c) ==
        IF c THEN [line |-> AddComma(r.line), errs |-> Append(r.errs, MissingComma)] ELSE r
      B1(r) == Block(r, C1(r.line))
      B2(r) == Block(r, C2(r.line))
      B3(r) == Block(r, C3(r.line))
      B4(r) == Block(r, C4(Trim(r.line), Trim(nextLine)))
  IN  B4(B3(B2(B1([line |-> line0, errs |-> <<>>]))))

RECURSIVE FixMissingCommasFrom(_, _, _, _)
FixMissingCommasFrom(lines, i, fixedLines, errs) ==
  IF i > Len(lines) THEN PassResult(JoinLines(fixedLines), errs)
  ELSE
    LET Continue(r) ==
          FixMissingCommasFrom(lines, i + 1, Append(fixedLines, r.line), errs \o r.errs)
    IN  Continue(FixMissingCommasLine(lines[i],
                                      IF i + 1 <= Len(lines) THEN lines[i + 1] ELSE <<>>))

\* JsonRemediator.fixMissingCommas
FixMissingCommas(s) == FixMissingCommasFrom(SplitLines(s), 1, <<>>, <<>>)

\* the comma of /^(\s*)(.*?),\s*([}\]])/ in a line: the index of the first
\* comma that white space and a closing brace or bracket follow (0: no match)
TrailingCommaIndex(line) ==
  LET w == SkipSpace(line, 1)
      Cand == {p \in 1..Len(line) :
                 /\ line[p] = ","
                 /\ At(line, SkipSpace(line, p + 1)) \in {"}", "]"}
                 /\ \A q \in w..(p - 1) : line[q] # "\r"}
  IN  IF Cand = {} THEN 0 ELSE CHOOSE p \in Cand : \A q \in Cand : p <= q

\* the first loop of fixTrailingCommas, for line i of lines (1-based)
FixTrailingCommasLine(lines, i, fixedLines) ==
  LET nextLine == IF i + 1 <= Len(lines) THEN lines[i + 1] ELSE <<>>
      \* content, } or content, ] in the line: match[1] + match[2] + match[3]
      B1(line, p) ==
        IF p # 0
        THEN [line |-> SubSeq(line, 1, p - 1) \o <<line[SkipSpace(line, p + 1)]>>,
              errs |-> <<TrailingComma>>]
        ELSE [line |-> line, errs |-> <<>>]
      \* a line ending with }, or ], that no property of the same object follows
      C2(line, trimmed) ==
        /\ EndsWith(trimmed, <<",">>)
        /\ (EndsWith(trimmed, <<"}", ",">>) \/ EndsWith(trimmed, <<"]", ",">>))
        /\ ~(/\ Trim(nextLine) # <<>>
             /\ LooksLikeProperty(nextLine)
             /\ IndentLen(nextLine) <= IndentLen(line))
      B2(r) ==
        IF C2(r.line, Trim(r.line))
        THEN [line |-> RemoveLastChar(r.line), errs |-> Append(r.errs, TrailingComma)]
        ELSE r
      \* a closing brace or bracket on its own line after a line ending with a comma
      C3(line) ==
        /\ (Trim(line) = <<"}">> \/ Trim(line) = <<"]">>)
        /\ i > 1
        /\ EndsWith(Trim(lines[i - 1]), <<",">>)
      B3(r, c3) ==
        [fixedLines |->
           Append(IF c3 /\ Len(fixedLines) > 0
                  THEN [fixedLines EXCEPT ![Len(fixedLines)] = RemoveLastChar(lines[i - 1])]
                  ELSE fixedLines,
                  r.line),
         errs |-> IF c3 THEN Append(r.errs, TrailingComma) ELSE r.errs]
      Last(r) == B3(r, C3(r.line))
  IN  Last(B2(B1(lines[i], TrailingCommaIndex(lines[i]))))

RECURSIVE FixTrailingCommasFirst(_, _, _, _)
FixTrailingCommasFirst(lines, i, fixedLines, errs) ==
  IF i > Len(lines) THEN [fixedLines |-> fixedLines, errs |-> errs]
  ELSE
    LET Continue(r) == FixTrailingCommasFirst(lines, i + 1, r.fixedLines, errs \o r.errs)
    IN  Continue(FixTrailingCommasLine(lines, i, fixedLines))

RECURSIVE PrevNonEmpty(_, _)
\* the last index <= j of a line that is not empty after trim (0 if none)
PrevNonEmpty(fixedLines, j) ==
  IF j < 1 THEN 0
  ELSE IF Trim(fixedLines[j]) # <<>> THEN j
  ELSE PrevNonEmpty(fixedLines, j - 1)

RECURSIVE FixTrailingCommasSecond(_, _, _)
\* the second loop of fixTrailingCommas, from line i down to the first line
FixTrailingCommasSecond(fixedLines, i, errs) ==
  IF i < 1 THEN [fixedLines |-> fixedLines, errs |-> errs]
  ELSE
    LET j == PrevNonEmpty(fixedLines, i - 1)
        c == /\ (Trim(fixedLines[i]) = <<"}">> \/ Trim(fixedLines[i]) = <<"]">>)
             /\ j # 0
             /\ EndsWith(Trim(fixedLines[j]), <<",">>)
    IN  IF c
        THEN FixTrailingCommasSecond([fixedLines EXCEPT ![j] = RemoveLastChar(fixedLines[j])],
                                     i - 1, Append(errs, TrailingComma))
        ELSE FixTrailingCommasSecond(fixedLines, i - 1, errs)

\* /,\s*[}\]]/ matches at index i: the index of the closing brace or bracket
\* (0: no match)
CommaCloserEnd(s, i) ==
  LET c == SkipSpace(s, i + 1) IN
  IF s[i] = "," /\ At(s, c) \in {"}", "]"} THEN c ELSE 0

RECURSIVE FixTrailingCommasRegex(_, _, _, _)
\* replace of /,(\s*[}\]])/g by the group, from index i on
FixTrailingCommasRegex(s, i, out, errs) ==
  LET M == {p \in i..Len(s) : CommaCloserEnd(s, p) # 0} IN
  IF M = {} THEN PassResult(out \o SubSeq(s, i, Len(s)), errs)
  ELSE
    LET p == Min(M)
        c == CommaCloserEnd(s, p)
    IN  FixTrailingCommasRegex(s, c + 1, out \o SubSeq(s, i, p - 1) \o SubSeq(s, p + 1, c),
                               Append(errs, TrailingComma))

\* JsonRemediator.fixTrailingCommas
FixTrailingCommas(s) ==
  LET Second(first) ==
        FixTrailingCommasSecond(first.fixedLines, Len(first.fixedLines), first.errs)
      Regex(second) ==
        FixTrailingCommasRegex(JoinLines(second.fixedLines), 1, <<>>, second.errs)
  IN  Regex(Second(FixTrailingCommasFirst(SplitLines(s), 1, <<>>, <<>>)))

\* /(?<!\\)\\(?!["\\/bfnrt])/ matches at index i
UnescapedBackslashAt(s, i) ==
  /\ s[i] = BSLASH
  /\ At(s, i - 1) # BSLASH
  /\ At(s, i + 1) \notin {QUOTE, BSLASH, "/", "b", "f", "n", "r", "t"}

RECURSIVE FixInvalidEscapesFrom(_, _, _)
\* replace of the pattern (flag g) by two backslashes, from index i on
FixInvalidEscapesFrom(s, i, out) ==
  LET M == {p \in i..Len(s) : UnescapedBackslashAt(s, p)} IN
  IF M = {} THEN out \o SubSeq(s, i, Len(s))
  ELSE FixInvalidEscapesFrom(s, Min(M) + 1,
                             out \o SubSeq(s, i, Min(M) - 1) \o <<BSLASH, BSLASH>>)

\* JsonRemediator.fixInvalidEscapes (pushes no diagnostic)
FixInvalidEscapes(s) == PassResult(FixInvalidEscapesFrom(s, 1, <<>>), <<>>)

Undefined == <<"u", "n", "d", "e", "f", "i", "n", "e", "d">>

\* /\bundefined\b/ matches at index i
UndefinedAt(s, i) ==
  /\ MatchAt(s, i, Undefined)
  /\ ~IsWordChar(At(s, i - 1))
  /\ ~IsWordChar(At(s, i + 9))

RECURSIVE ReplaceUndefinedFrom(_, _, _)
\* replace of the pattern (flag g) by null, from index i on
ReplaceUndefinedFrom(s, i, out) ==
  LET M == {p \in i..Len(s) : UndefinedAt(s, p)} IN
  IF M = {} THEN out \o SubSeq(s, i, Len(s))
  ELSE ReplaceUndefinedFrom(s, Min(M) + 9,
                            out \o SubSeq(s, i, Min(M) - 1) \o <<"n", "u", "l", "l">>)

\* fixMalformedStructures closing the trimmed text
FixMalformedStructuresTrimmed(s) ==
  LET braces == CountChar(s, "{") - CountChar(s, "}")
      brackets == CountChar(s, "[") - CountChar(s, "]")
      fixed == Trim(s) \o Repeat(<<NL, "}">>, braces) \o Repeat(<<NL, "]">>, brackets)
  IN  PassResult(ReplaceUndefinedFrom(fixed, 1, <<>>),
                 Repeat(<<MalformedObject>>, braces) \o Repeat(<<MalformedArray>>, brackets))

\* JsonRemediator.fixMalformedStructures: braces first, then brackets
FixMalformedStructures(s) ==
  LET braces == CountChar(s, "{") - CountChar(s, "}")
      brackets == CountChar(s, "[") - CountChar(s, "]")
      fixed == s \o Repeat(<<NL, "}">>, braces) \o Repeat(<<NL, "]">>, brackets)
  IN  PassResult(ReplaceUndefinedFrom(fixed, 1, <<>>),
                 Repeat(<<MalformedObject>>, braces) \o Repeat(<<MalformedArray>>, brackets))

\* const maxIterations = 5
MaxIterations == 5

\* FixPipeline with fixTrailingCommas before fixMissingCommas
FixPipelineTrailingFirst(s) ==
  LET Then(r, p) == PassResult(p.text, r.errs \o p.errs)
      Trailing(r) == Then(r, FixTrailingCommas(r.text))
      Commas(r) == Then(r, FixMissingCommas(r.text))
      Escapes(r) == Then(r, FixInvalidEscapes(r.text))
      Structures(r) == Then(r, FixMalformedStructures(r.text))
  IN  Structures(Escapes(Commas(Trailing(FixMissingQuotes(s)))))

\* one iteration of the loop of fixJsonSyntax: the five passes in order
FixPipeline(s) ==
  LET \* the text of the pass, the diagnostics pushed so far and by the pass
      Then(r, p) == PassResult(p.text, r.errs \o p.errs)
      Commas(r) == Then(r, FixMissingCommas(r.text))
      Trailing(r) == Then(r, FixTrailingCommas(r.text))
      Escapes(r) == Then(r, FixInvalidEscapes(r.text))
      Structures(r) == Then(r, FixMalformedStructures(r.text))
  IN  Structures(Escapes(Trailing(Commas(FixMissingQuotes(s)))))

RECURSIVE FixJsonSyntaxLoopOneMore(_, _, _, _)
\* FixJsonSyntaxLoop with iterations <= maxIterations as the loop condition
FixJsonSyntaxLoopOneMore(fixed, previousFixed, iterations, errs) ==
  IF fixed # previousFixed /\ iterations <= MaxIterations
  THEN LET Continue(r) ==
             FixJsonSyntaxLoopOneMore(r.text, fixed, iterations + 1, errs \o r.errs)
       IN  Continue(FixPipeline(fixed))
  ELSE [text |-> fixed, errs |-> errs, iterations |-> iterations]

RECURSIVE FixJsonSyntaxLoopToTheLimit(_, _, _, _)
\* FixJsonSyntaxLoop that compares fixed with previousFixed before the first
\* iteration only: once started, the loop runs maxIterations times
FixJsonSyntaxLoopToTheLimit(fixed, previousFixed, iterations, errs) ==
  IF (fixed # previousFixed \/ iterations > 0) /\ iterations < MaxIterations
  THEN LET Continue(r) ==
             FixJsonSyntaxLoopToTheLimit(r.text, fixed, iterations + 1, errs \o r.errs)
       IN  Continue(FixPipeline(fixed))
  ELSE [text |-> fixed, errs |-> errs, iterations |-> iterations]

RECURSIVE FixJsonSyntaxLoop(_, _, _, _)
\* while (fixed !== previousFixed && iterations < maxIterations)
FixJsonSyntaxLoop(fixed, previousFixed, iterations, errs) ==
  IF fixed # previousFixed /\ iterations < MaxIterations
  THEN LET Continue(r) ==
             FixJsonSyntaxLoop(r.text, fixed, iterations + 1, errs \o r.errs)
       IN  Continue(FixPipeline(fixed))
  ELSE [text |-> fixed, errs |-> errs, iterations |-> iterations]

\* JsonRemediator.fixJsonSyntax
FixJsonSyntax(s) == FixJsonSyntaxLoop(s, <<>>, 0, <<>>)

(***************************************************************************)
(* class JsonRemediatorFinal                                               *)
(***************************************************************************)
\* s.indexOf(sub) as a 1-based index (0 if sub does not occur)
IndexOf(s, sub) ==
  LET Occ == {i \in 1..(Len(s) - Len(sub) + 1) : SubSeq(s, i, i + Len(sub) - 1) = sub}
  IN  IF Occ = {} THEN 0 ELSE CHOOSE i \in Occ : \A j \in Occ : i <= j

\* the first index >= i of a quote: a greedy [^"]* from i
NextQuote(s, i) == FirstOr({j \in i..Len(s) : s[j] = QUOTE}, s, i)

\* /(":\s*"[^"]*")\s*(")/ matches at index i: the index of the last quote of
\* the match (0: no match)
ValueKeyEnd(s, i) ==
  LET j == SkipSpace(s, i + 2)
      k == NextQuote(s, j + 1)
      m == SkipSpace(s, k + 1)
  IN  IF /\ s[i] = QUOTE /\ At(s, i + 1) = ":" /\ At(s, j) = QUOTE
         /\ At(s, k) = QUOTE /\ At(s, m) = QUOTE
      THEN m ELSE 0

RECURSIVE FinalValueKeyFrom(_, _, _, _)
\* pattern 1: replace of /(":\s*"[^"]*")\s*(")/g, from index i on; the callback
\* looks for a colon after the first occurrence of the matched text
FinalValueKeyFrom(s, i, out, errs) ==
  LET M == {p \in i..Len(s) : ValueKeyEnd(s, p) # 0} IN
  IF M = {} THEN PassResult(out \o SubSeq(s, i, Len(s)), errs)
  ELSE
    LET p == Min(M)
        k == NextQuote(s, SkipSpace(s, p + 2) + 1)
        m == ValueKeyEnd(s, p)
        match == SubSeq(s, p, m)
        afterMatch == SubSeq(s, IndexOf(s, match) + Len(match), Len(s))
    IN  IF Includes(afterMatch, ":")
        THEN FinalValueKeyFrom(s, m + 1,
               out \o SubSeq(s, i, p - 1) \o SubSeq(s, p, k) \o <<",", " ", QUOTE>>,
               Append(errs, MissingComma))
        ELSE FinalValueKeyFrom(s, m + 1, out \o SubSeq(s, i, m), errs)

\* the index after the token of the given pattern at index i (0 if none):
\* (\}), (\]), (\d+), (true|false), (null)
TokenEnd(s, i, pattern) ==
  CASE pattern = "brace" -> IF s[i] = "}" THEN i + 1 ELSE 0
    [] pattern = "bracket" -> IF s[i] = "]" THEN i + 1 ELSE 0
    [] pattern = "digits" -> IF IsDigit(s[i]) THEN SkipDigits(s, i) ELSE 0
    [] pattern = "boolean" ->
         IF MatchAt(s, i, <<"t", "r", "u", "e">>) THEN i + 4
         ELSE IF MatchAt(s, i, <<"f", "a", "l", "s", "e">>) THEN i + 5
         ELSE 0
    [] pattern = "null" -> IF MatchAt(s, i, <<"n", "u", "l", "l">>) THEN i + 4 ELSE 0

\* /(token)\s*(")/ matches at index i: the index of the quote (0: no match)
TokenKeyEnd(s, i, pattern) ==
  LET k == TokenEnd(s, i, pattern)
      m == SkipSpace(s, k)
  IN  IF k # 0 /\ At(s, m) = QUOTE THEN m ELSE 0

RECURSIVE FinalTokenKeyFrom(_, _, _, _, _)
\* patterns 2 to 6: replace of /(token)\s*(")/g by token + "," + quote
FinalTokenKeyFrom(s, pattern, i, out, errs) ==
  LET M == {p \in i..Len(s) : TokenKeyEnd(s, p, pattern) # 0} IN
  IF M = {} THEN PassResult(out \o SubSeq(s, i, Len(s)), errs)
  ELSE
    LET p == Min(M)
        k == TokenEnd(s, p, pattern)
    IN  FinalTokenKeyFrom(s, pattern, TokenKeyEnd(s, p, pattern) + 1,
                          out \o SubSeq(s, i, k - 1) \o <<",", QUOTE>>,
                          Append(errs, MissingComma))

\* JsonRemediatorFinal.fixMissingCommas
FinalFixMissingCommas(s) ==
  LET Pattern(r, pattern) == FinalTokenKeyFrom(r.text, pattern, 1, <<>>, r.errs)
  IN  Pattern(Pattern(Pattern(Pattern(Pattern(FinalValueKeyFrom(s, 1, <<>>, <<>>),
        "brace"), "bracket"), "digits"), "boolean"), "null")

RECURSIVE FinalFixTrailingCommasFrom(_, _, _, _)
\* replace of /,\s*([}\]])/g by the closing brace or bracket
FinalFixTrailingCommasFrom(s, i, out, errs) ==
  LET M == {p \in i..Len(s) : CommaCloserEnd(s, p) # 0} IN
  IF M = {} THEN PassResult(out \o SubSeq(s, i, Len(s)), errs)
  ELSE
    LET c == CommaCloserEnd(s, Min(M))
    IN  FinalFixTrailingCommasFrom(s, c + 1, out \o SubSeq(s, i, Min(M) - 1) \o <<s[c]>>,
                                   Append(errs, TrailingComma))

\* JsonRemediatorFinal.fixTrailingCommas
FinalFixTrailingCommas(s) == FinalFixTrailingCommasFrom(s, 1, <<>>, <<>>)

\* the pattern matches at index i: the index of the colon (0: no match)
FinalUnquotedPropertyEnd(s, i) ==
  LET j == SkipSpace(s, i + 1)
      m == SkipSpace(s, SkipIdent(s, j))
  IN  IF s[i] \in {"{", ","} /\ IsIdentStart(At(s, j)) /\ At(s, m) = ":" THEN m ELSE 0

RECURSIVE FinalFixMissingQuotesFrom(_, _, _, _)
\* replace of /([{,]\s*)([a-zA-Z_$][a-zA-Z0-9_$]*)\s*:/g
FinalFixMissingQuotesFrom(s, i, out, errs) ==
  LET M == {p \in i..Len(s) : FinalUnquotedPropertyEnd(s, p) # 0} IN
  IF M = {} THEN PassResult(out \o SubSeq(s, i, Len(s)), errs)
  ELSE
    LET p == Min(M)
        j == SkipSpace(s, p + 1)
        k == SkipIdent(s, j)
    IN  FinalFixMissingQuotesFrom(s, FinalUnquotedPropertyEnd(s, p) + 1,
          out \o SubSeq(s, i, j - 1) \o <<QUOTE>> \o SubSeq(s, j, k - 1) \o <<QUOTE, ":">>,
          Append(errs, MissingQuote))

\* JsonRemediatorFinal.fixMissingQuotes
FinalFixMissingQuotes(s) == FinalFixMissingQuotesFrom(s, 1, <<>>, <<>>)

\* JsonRemediatorFinal.fixMalformedStructures: brackets first, then braces
FinalFixMalformedStructures(s) ==
  LET braces == CountChar(s, "{") - CountChar(s, "}")
      brackets == CountChar(s, "[") - CountChar(s, "]")
  IN  PassResult(s \o Repeat(<<"]">>, brackets) \o Repeat(<<"}">>, braces),
                 Repeat(<<MalformedArray>>, brackets) \o Repeat(<<MalformedObject>>, braces))

\* JsonRemediatorFinal.fixJsonSyntax: the four passes, once
FinalFixJsonSyntax(s) ==
  LET Then(r, p) == PassResult(p.text, r.errs \o p.errs)
      Trailing(r) == Then(r, FinalFixTrailingCommas(r.text))
      Quotes(r) == Then(r, FinalFixMissingQuotes(r.text))
      Structures(r) == Then(r, FinalFixMalformedStructures(r.text))
      Once(r) == [text |-> r.text, errs |-> r.errs, iterations |-> 1]
  IN  Once(Structures(Quotes(Trailing(FinalFixMissingCommas(s)))))

(***************************************************************************)
(* remediate and remediatePackageJson.  An entry of unfixableErrors is the *)
(* message [prefix, detail] (the string is prefix followed by detail).     *)
(* A result is the object an entry point returns; sharedErrors and         *)
(* sharedUnfixable say that its errors / unfixableErrors array is the      *)
(* array the instance field refers to (a push on the field shows in it).   *)
(***************************************************************************)
JsonRemediator == "JsonRemediator"
JsonRemediatorFinal == "JsonRemediatorFinal"
Classes == {JsonRemediator, JsonRemediatorFinal}

Msg(prefix, detail) == [prefix |-> prefix, detail |-> detail]
FailedToParse == "Failed to parse after remediation: "
ValidationFailed == "Package.json validation failed: "
MissingName == Msg("", "Missing required field: name")
MissingVersion == Msg("", "Missing required field: version")
InvalidVersion == Msg("", "Invalid version format. Expected semantic version (e.g., 1.0.0)")
TypeErrorMessage == "Cannot read properties of null"

\* the message JsonRemediator.remediate reports for a parser message
HelpfulMessage(errorMessage) ==
  IF errorMessage = ErrPropertyName
  THEN "Invalid JSON structure - check for missing quotes around property names or malformed objects"
  ELSE IF errorMessage = ErrToken
  THEN "Unexpected character found - check for invalid syntax or missing commas"
  ELSE IF errorMessage = ErrEnd
  THEN "JSON appears to be truncated - check for missing closing braces or brackets"
  ELSE errorMessage

\* the repair of one class: [text, errs, iterations]
FixOf(cls, s) == IF cls = JsonRemediator THEN FixJsonSyntax(s) ELSE FinalFixJsonSyntax(s)

\* remediate without the two assignments: the fields keep what earlier calls left
ResetFieldsKeeps(this) == this

\* this.errors = []; this.unfixableErrors = []
ResetFields(this) == [errors |-> <<>>, unfixableErrors |-> <<>>]

\* the result object of the branch where the first JSON.parse succeeds
ValidResult(jsonString) ==
  [success |-> TRUE, fixedJson |-> jsonString, errors |-> <<>>, unfixableErrors |-> <<>>,
   sharedErrors |-> FALSE, sharedUnfixable |-> FALSE]

\* FixedResult that reports success whatever the second JSON.parse said
FixedResultAlwaysSuccess(success, fixedJson, errs, unfixable) ==
  [success |-> TRUE, fixedJson |-> fixedJson, errors |-> errs,
   unfixableErrors |-> unfixable, sharedErrors |-> TRUE, sharedUnfixable |-> TRUE]

\* the result object of the branches after fixJsonSyntax
FixedResult(success, fixedJson, errs, unfixable) ==
  [success |-> success, fixedJson |-> fixedJson, errors |-> errs,
   unfixableErrors |-> unfixable, sharedErrors |-> TRUE, sharedUnfixable |-> TRUE]

\* Remediate without the first JSON.parse: the passes always run
RemediateAlwaysFixes(cls, this, jsonString) ==
  LET fields == ResetFields(this)
      Parsed(fix, parsed) ==
        LET message == IF cls = JsonRemediator THEN HelpfulMessage(parsed.err) ELSE parsed.err
            errs == fields.errors \o fix.errs
            unfixable == fields.unfixableErrors
                         \o (IF parsed.ok THEN <<>> ELSE <<Msg(FailedToParse, message)>>)
        IN  [result |-> FixedResult(parsed.ok, fix.text, errs, unfixable),
             errors |-> errs, unfixableErrors |-> unfixable,
             iterations |-> fix.iterations, escaped |-> FALSE]
      Fixed(fix) == Parsed(fix, JsonParse(fix.text))
  IN  Fixed(FixOf(cls, jsonString))

\* Remediate that returns the input text, not the repaired text, when the
\* repaired text does not parse, and pushes no reason
RemediateGivesUp(cls, this, jsonString) ==
  LET fields == ResetFields(this)
      Parsed(fix, parsed) ==
        LET errs == fields.errors \o fix.errs
        IN  [result |-> FixedResult(parsed.ok, IF parsed.ok THEN fix.text ELSE jsonString,
                                    errs, fields.unfixableErrors),
             errors |-> errs, unfixableErrors |-> fields.unfixableErrors,
             iterations |-> fix.iterations, escaped |-> FALSE]
      Fixed(fix) == Parsed(fix, JsonParse(fix.text))
  IN  IF JsonParse(jsonString).ok
      THEN [result |-> ValidResult(jsonString),
            errors |-> fields.errors, unfixableErrors |-> fields.unfixableErrors,
            iterations |-> 0, escaped |-> FALSE]
      ELSE Fixed(FixOf(cls, jsonString))

\* remediate(jsonString) of an instance of class cls with fields this: the
\* returned result, the instance fields after the call, the iterations of the
\* pass loop (0: no pass ran), and whether an exception left the method
Remediate(cls, this, jsonString) ==
  LET fields == ResetFields(this)
      \* the second JSON.parse, on the text of the passes
      Parsed(fix, parsed) ==
        LET message == IF cls = JsonRemediator THEN HelpfulMessage(parsed.err) ELSE parsed.err
            errs == fields.errors \o fix.errs
            unfixable == fields.unfixableErrors
                         \o (IF parsed.ok THEN <<>> ELSE <<Msg(FailedToParse, message)>>)
        IN  [result |-> FixedResult(parsed.ok, fix.text, errs, unfixable),
             errors |-> errs, unfixableErrors |-> unfixable,
             iterations |-> fix.iterations, escaped |-> FALSE]
      Fixed(fix) == Parsed(fix, JsonParse(fix.text))
  IN  IF JsonParse(jsonString).ok
      THEN [result |-> ValidResult(jsonString),
            errors |-> fields.errors, unfixableErrors |-> fields.unfixableErrors,
            iterations |-> 0, escaped |-> FALSE]
      ELSE Fixed(FixOf(cls, jsonString))

UndefinedVal == [k |-> "undefined"]

\* the property read parsed[key] of a value that is not null: the last member
\* with that key of an object, undefined for every other value
GetProp(parsed, key) ==
  IF parsed.k # "obj" THEN UndefinedVal
  ELSE LET I == {i \in 1..Len(parsed.members) : parsed.members[i].key = key}
       IN  IF I = {} THEN UndefinedVal ELSE parsed.members[Max(I)].val

\* ToBoolean
Truthy(v) ==
  CASE v.k = "str" -> v.s # <<>>
    [] v.k = "num" -> ~v.zero
    [] v.k = "bool" -> v.b
    [] v.k \in {"arr", "obj"} -> TRUE
    [] OTHER -> FALSE

\* /^\d+\.\d+\.\d+/.test(chars)
SemverPrefix(chars) ==
  LET d1 == SkipDigits(chars, 1)
      d2 == SkipDigits(chars, d1 + 1)
  IN  /\ d1 > 1 /\ At(chars, d1) = "."
      /\ d2 > d1 + 1 /\ At(chars, d2) = "."
      /\ IsDigit(At(chars, d2 + 1))

RECURSIVE VersionMatches(_)
\* /^\d+\.\d+\.\d+/.test(v): the pattern is tested on String(v); the string of
\* an array starts with the string of its first element, the string of a
\* number, boolean or object never matches
VersionMatches(v) ==
  CASE v.k = "str" -> SemverPrefix(v.s)
    [] v.k = "arr" -> Len(v.items) > 0 /\ VersionMatches(v.items[1])
    [] OTHER -> FALSE

NameKey == <<"n", "a", "m", "e">>
VersionKey == <<"v", "e", "r", "s", "i", "o", "n">>

\* ManifestChecks that asks whether the members exist instead of whether their
\* values are truthy
ManifestChecksPresence(parsed) ==
  IF parsed.k = "null" THEN [threw |-> TRUE, msgs |-> <<>>]
  ELSE
    LET name == GetProp(parsed, NameKey)
        version == GetProp(parsed, VersionKey)
    IN  [threw |-> FALSE,
         msgs |-> (IF name.k = "undefined" THEN <<MissingName>> ELSE <<>>)
                  \o (IF version.k = "undefined" THEN <<MissingVersion>> ELSE <<>>)
                  \o (IF version.k # "undefined" /\ ~VersionMatches(version)
                      THEN <<InvalidVersion>> ELSE <<>>)]

\* the package.json checks on the parsed value: reading a property of null
\* throws a TypeError before anything is pushed
ManifestChecks(parsed) ==
  IF parsed.k = "null" THEN [threw |-> TRUE, msgs |-> <<>>]
  ELSE
    LET name == GetProp(parsed, NameKey)
        version == GetProp(parsed, VersionKey)
    IN  [threw |-> FALSE,
         msgs |-> (IF ~Truthy(name) THEN <<MissingName>> ELSE <<>>)
                  \o (IF ~Truthy(version) THEN <<MissingVersion>> ELSE <<>>)
                  \o (IF Truthy(version) /\ ~VersionMatches(version)
                      THEN <<InvalidVersion>> ELSE <<>>)]

\* the try block of remediatePackageJson: whether it is entered, whether it
\* throws, and what it pushes on this.unfixableErrors
ValidatePackage(result) ==
  LET Checked(checks) ==
        IF checks.threw
        THEN [entered |-> TRUE, threw |-> TRUE, msgs |-> <<>>]
        ELSE [entered |-> TRUE, threw |-> FALSE, msgs |-> checks.msgs]
      Parsed(parsed) ==
        IF ~parsed.ok
        THEN [entered |-> TRUE, threw |-> TRUE, msgs |-> <<>>]
        ELSE Checked(ManifestChecks(parsed.val))
  IN  IF ~(result.success /\ result.fixedJson # <<>>)
      THEN [entered |-> FALSE, threw |-> FALSE, msgs |-> <<>>]
      ELSE Parsed(JsonParse(result.fixedJson))

\* RemediatePackageJsonOriginal where a failed check makes the result a failure
RemediatePackageJsonOriginalFailing(this, packageJsonContent) ==
  LET Validated(r, v) ==
        LET pushed == IF v.threw THEN <<Msg(ValidationFailed, TypeErrorMessage)>> ELSE v.msgs
            unfixable == r.unfixableErrors \o pushed
        IN  [result |-> [r.result EXCEPT !.unfixableErrors =
                           IF r.result.sharedUnfixable THEN unfixable ELSE @,
                                         !.success = @ /\ pushed = <<>>],
             errors |-> r.errors, unfixableErrors |-> unfixable,
             iterations |-> r.iterations, escaped |-> r.escaped]
      Remediated(r) == Validated(r, ValidatePackage(r.result))
  IN  Remediated(Remediate(JsonRemediator, this, packageJsonContent))

\* JsonRemediator.remediatePackageJson: the catch clause pushes on
\* this.unfixableErrors; the result of remediate is returned as it is
RemediatePackageJsonOriginal(this, packageJsonContent) ==
  LET Validated(r, v) ==
        LET pushed == IF v.threw THEN <<Msg(ValidationFailed, TypeErrorMessage)>> ELSE v.msgs
            unfixable == r.unfixableErrors \o pushed
        IN  [result |-> [r.result EXCEPT !.unfixableErrors =
                           IF r.result.sharedUnfixable THEN unfixable ELSE @],
             errors |-> r.errors, unfixableErrors |-> unfixable,
             iterations |-> r.iterations, escaped |-> r.escaped]
      Remediated(r) == Validated(r, ValidatePackage(r.result))
  IN  Remediated(Remediate(JsonRemediator, this, packageJsonContent))

\* RemediatePackageJsonFinal without the try ... catch around the checks
RemediatePackageJsonFinalNoCatch(this, packageJsonContent) ==
  LET Validated(r, v) ==
        LET unfixable == r.unfixableErrors \o v.msgs
        IN  [result |-> [r.result EXCEPT !.unfixableErrors = unfixable,
                                         !.sharedUnfixable = TRUE],
             errors |-> r.errors, unfixableErrors |-> unfixable,
             iterations |-> r.iterations, escaped |-> r.escaped \/ v.threw]
      Remediated(r) == Validated(r, ValidatePackage(r.result))
  IN  Remediated(Remediate(JsonRemediatorFinal, this, packageJsonContent))

\* JsonRemediatorFinal.remediatePackageJson: the catch clause pushes on
\* this.errors; { ...result, unfixableErrors: this.unfixableErrors } is returned
RemediatePackageJsonFinal(this, packageJsonContent) ==
  LET Validated(r, v) ==
        LET errs == r.errors \o (IF v.threw THEN <<ParseErrorType>> ELSE <<>>)
            unfixable == r.unfixableErrors \o v.msgs
        IN  [result |-> [r.result EXCEPT !.errors = IF r.result.sharedErrors THEN errs ELSE @,
                                         !.unfixableErrors = unfixable,
                                         !.sharedUnfixable = TRUE],
             errors |-> errs, unfixableErrors |-> unfixable,
             iterations |-> r.iterations, escaped |-> r.escaped]
      Remediated(r) == Validated(r, ValidatePackage(r.result))
  IN  Remediated(Remediate(JsonRemediatorFinal, this, packageJsonContent))

RemediatePackageJson(cls, this, packageJsonContent) ==
  IF cls = JsonRemediator THEN RemediatePackageJsonOriginal(this, packageJsonContent)
  ELSE RemediatePackageJsonFinal(this, packageJsonContent)

(***************************************************************************)
(* Input texts.                                                            *)
(***************************************************************************)
\* every text of at most MaxLen characters of Alphabet
MaxLen == 2
Alphabet == {"{", "}", "[", "]", QUOTE, ":", ",", NL, " ", "a", "1", BSLASH}
ShortTexts == UNION {[1..n -> Alphabet] : n \in 0..MaxLen}

\* commas before a line of closing braces: each iteration of the pass loop
\* removes one comma
MaxCommas == 6
CommaTexts == {[i \in 1..n |-> ","] \o <<NL, "}", "}">> : n \in 1..MaxCommas}

Q(w) == <<QUOTE>> \o w \o <<QUOTE>>
Prop(key, value) == Q(key) \o <<":">> \o value
Object1(m1) == <<"{">> \o m1 \o <<"}">>
Object2(m1, m2) == <<"{">> \o m1 \o <<",">> \o m2 \o <<"}">>

\* package.json texts: every combination of a name member and a version member
NameMembers == {<<>>, Prop(NameKey, Q(<<>>)), Prop(NameKey, Q(<<"x">>))}
VersionValues ==
  {Q(<<>>), Q(<<"1", ".", "0", ".", "0">>), Q(<<"1", ".", "0">>),
   Q(<<"1", ".", "2", ".", "3", "-", "b">>), Q(<<"v", "1">>),
   <<"0">>, <<"1">>, <<"n", "u", "l", "l">>, <<"t", "r", "u", "e">>,
   <<"[">> \o Q(<<"1", ".", "0", ".", "0">>) \o <<"]">>}
VersionMembers == {<<>>} \cup {Prop(VersionKey, v) : v \in VersionValues}
Manifest(n, v) ==
  IF n = <<>> /\ v = <<>> THEN <<"{", "}">>
  ELSE IF n = <<>> THEN Object1(v)
  ELSE IF v = <<>> THEN Object1(n)
  ELSE Object2(n, v)
ManifestTexts == {Manifest(n, v) : n \in NameMembers, v \in VersionMembers}

\* a text without its last character, a text with a comma before its last character
Truncated(t) == SubSeq(t, 1, Len(t) - 1)
WithTrailingComma(t) == SubSeq(t, 1, Len(t) - 1) \o <<",", t[Len(t)]>>

\* a text with a comma after the last character that is not white space before
\* its final character
WithFinalComma(t) ==
  SubSeq(t, 1, SkipSpaceBack(t, Len(t) - 1)) \o <<",">>
  \o SubSeq(t, SkipSpaceBack(t, Len(t) - 1) + 1, Len(t))

\* texts that are not objects, and texts of several lines
Line(indent, content) == [i \in 1..indent |-> " "] \o content
OtherTexts ==
  {<<"n", "u", "l", "l">>, <<"1">>, <<"0">>, Q(<<"s">>), <<"[", "]">>, <<"t", "r", "u", "e">>,
   <<"h", "e", "l", "l", "o", " ", "w", "o", "r", "l", "d">>,
   <<"1", "}", NL, "{">>,
   <<"{">> \o Prop(<<"k">>, <<" ", "[", "1">>),
   <<"{">> \o Prop(<<"a">>, Q(<<",", "}">>)) \o <<"}">>,
   <<"[", NL, "1", NL, ",", "2", "]">>,
   <<"[">> \o Q(<<BSLASH, "u", "0", "0", "4", "1">>) \o <<"]">>,
   <<"{">> \o Prop(<<"a">>, Q(<<"1">>)) \o <<" ">> \o Prop(<<"b">>, Q(<<"2">>)) \o <<"}">>,
   <<"{", "a", ":">> \o Q(<<"1">>) \o <<"}">>,
   <<"{", NL>> \o Line(1, Prop(<<"a">>, <<"1">>)) \o <<NL>> \o Line(1, Prop(<<"b">>, <<"2">>))
        \o <<NL, "}">>,
   <<"{", NL>> \o Line(1, Prop(NameKey, Q(<<"x">>))) \o <<NL>>
        \o Line(1, Prop(VersionKey, Q(<<"1", ".", "0", ".", "0">>))) \o <<NL, "}">>,
   <<"{", NL>> \o Line(1, Prop(<<"a">>, <<"u", "n", "d", "e", "f", "i", "n", "e", "d">>))
        \o <<NL, "}">>}

\* one-line objects in which white space, not a comma, separates two properties
\* with string values
AdjacentProperties ==
  {<<Prop(<<"a">>, Q(<<"1">>)), Prop(<<"b">>, Q(<<"2">>))>>,
   <<Prop(<<"a">>, Q(<<"x">>)), Prop(<<"b">>, Q(<<"y">>))>>,
   <<Prop(NameKey, <<" ">> \o Q(<<"t">>)),
     Prop(VersionKey, <<" ">> \o Q(<<"1", ".", "0", ".", "0">>))>>}
Separated(m, separator) == Object1(m[1] \o separator \o m[2])
MissingCommaTexts == {Separated(m, <<" ">>) : m \in AdjacentProperties}

\* objects with an identifier key that is not quoted, after a brace, after a
\* comma and at the start of a line
UnquotedKey(prefix, key, suffix) ==
  [text |-> prefix \o key \o suffix, quoted |-> prefix \o Q(key) \o suffix]
UnquotedKeyCases ==
  {UnquotedKey(<<"{">>, <<"a">>, <<":">> \o Q(<<"1">>) \o <<"}">>),
   UnquotedKey(<<"{">>, <<"a">>, <<":", "1", "}">>),
   UnquotedKey(<<"{">> \o Prop(<<"x">>, <<"1">>) \o <<",">>, <<"b">>, <<":", "2", "}">>),
   UnquotedKey(<<"{", NL, " ">>, <<"a">>, <<":", "1", NL, "}">>)}
UnquotedKeyTexts == {c.text : c \in UnquotedKeyCases}

\* valid objects of one property per line
MultiLine(members) ==
  <<"{", NL>> \o JoinLines([k \in 1..Len(members) |->
                              Line(1, members[k]) \o (IF k < Len(members) THEN <<",">> ELSE <<>>)])
  \o <<NL, "}">>
Documents ==
  {MultiLine(<<Prop(NameKey, <<" ">> \o Q(<<"x">>)),
               Prop(VersionKey, <<" ">> \o Q(<<"1", ".", "0", ".", "0">>))>>),
   MultiLine(<<Prop(<<"a">>, <<" ">> \o Q(<<"x">>)), Prop(<<"b">>, <<" ">> \o Q(<<"y">>))>>),
   MultiLine(<<Prop(<<"a">>, <<" ", "1">>), Prop(<<"b">>, <<" ", "t", "r", "u", "e">>),
               Prop(<<"c">>, <<" ", "n", "u", "l", "l">>), Prop(<<"d">>, <<" ">> \o Q(<<"s">>))>>),
   MultiLine(<<Prop(<<"a">>, <<" ", "{">> \o Prop(<<"k">>, <<"1">>) \o <<"}">>),
               Prop(<<"b">>, <<" ", "[", "1", "]">>), Prop(<<"c">>, <<" ">> \o Q(<<"z">>))>>)}

\* a text without the commas that end its lines
DeleteLineEndCommas(d) ==
  LET Kept == {p \in 1..Len(d) : ~(d[p] = "," /\ At(d, p + 1) = NL)}
      Nth(k) == CHOOSE p \in Kept : Cardinality({q \in Kept : q <= p}) = k
  IN  [k \in 1..Cardinality(Kept) |-> d[Nth(k)]]

Inputs ==
  ShortTexts \cup CommaTexts \cup ManifestTexts \cup OtherTexts
  \cup {Truncated(t) : t \in ManifestTexts} \cup {WithTrailingComma(t) : t \in ManifestTexts}
  \cup MissingCommaTexts \cup UnquotedKeyTexts
  \cup Documents \cup {DeleteLineEndCommas(d) : d \in Documents}
  \cup {Truncated(d) : d \in Documents} \cup {WithFinalComma(d) : d \in Documents}

(***************************************************************************)
(* class JsonFixerCli (cli/json-fixer.ts)                                  *)
(***************************************************************************)
\* the words of the switch in parseArgs
OptInput == {<<"-", "-", "i", "n", "p", "u", "t">>, <<"-", "i">>}
OptOutput == {<<"-", "-", "o", "u", "t", "p", "u", "t">>, <<"-", "o">>}
OptFix == {<<"-", "-", "f", "i", "x">>, <<"-", "f">>}
OptVerbose == {<<"-", "-", "v", "e", "r", "b", "o", "s", "e">>, <<"-", "v">>}
OptCheck == {<<"-", "-", "c", "h", "e", "c", "k">>, <<"-", "c">>}
OptAll == {<<"-", "-", "a", "l", "l">>, <<"-", "a">>}
OptHelp == {<<"-", "-", "h", "e", "l", "p">>, <<"-", "h">>}

\* const options = { input: "", fix: false, verbose: false, check: false,
\* all: false }; exit is the code parseArgs ends the process with ("none": it
\* returns)
DefaultOptions ==
  [input |-> <<>>, output |-> <<>>, fix |-> FALSE, verbose |-> FALSE,
   check |-> FALSE, all |-> FALSE, exit |-> "none"]

\* args[++i]: undefined past the end of args (the empty text here: both are
\* falsy where the code tests them)
ArgAt(args, i) == IF i \in 1..Len(args) THEN args[i] ELSE <<>>

RECURSIVE ParseArgsFrom(_, _, _)
\* the for loop of parseArgs from args[i], and the check after it
ParseArgsFrom(args, i, options) ==
  IF i > Len(args)
  THEN IF options.input = <<>> /\ ~options.all
       THEN [options EXCEPT !.exit = "1"]
       ELSE options
  ELSE CASE args[i] \in OptInput ->
              ParseArgsFrom(args, i + 2, [options EXCEPT !.input = ArgAt(args, i + 1)])
         [] args[i] \in OptOutput ->
              ParseArgsFrom(args, i + 2, [options EXCEPT !.output = ArgAt(args, i + 1)])
         [] args[i] \in OptFix -> ParseArgsFrom(args, i + 1, [options EXCEPT !.fix = TRUE])
         [] args[i] \in OptVerbose ->
              ParseArgsFrom(args, i + 1, [options EXCEPT !.verbose = TRUE])
         [] args[i] \in OptCheck -> ParseArgsFrom(args, i + 1, [options EXCEPT !.check = TRUE])
         [] args[i] \in OptAll -> ParseArgsFrom(args, i + 1, [options EXCEPT !.all = TRUE])
         [] args[i] \in OptHelp -> [options EXCEPT !.exit = "0"]
         [] OTHER ->
              ParseArgsFrom(args, i + 1,
                            IF ~StartsWith(args[i], <<"-">>) /\ options.input = <<>>
                            THEN [options EXCEPT !.input = args[i]]
                            ELSE options)

\* JsonFixerCli.parseArgs
ParseArgs(args) == ParseArgsFrom(args, 1, DefaultOptions)

\* process.cwd()
Cwd == <<"/", "w">>

\* path.resolve(p): an absolute path is kept; a relative one loses a leading
\* "./" and follows the working directory
Resolve(p) ==
  IF StartsWith(p, <<"/">>)
  THEN p
  ELSE Cwd \o <<"/">> \o (IF StartsWith(p, <<".", "/">>) THEN SubSeq(p, 3, Len(p)) ELSE p)

PackageJson == <<"p", "a", "c", "k", "a", "g", "e", ".", "j", "s", "o", "n">>

\* what the process does to the outside, in order
Read(path, content) == [op |-> "read", path |-> path, text |-> content, msg |-> ""]
Write(path, content) == [op |-> "write", path |-> path, text |-> content, msg |-> ""]
Log(msg, path) == [op |-> "log", path |-> path, text |-> <<>>, msg |-> msg]
Error(msg, path) == [op |-> "error", path |-> path, text |-> <<>>, msg |-> msg]

\* one line of msg for each element of list
ForEach(list, msg, path) == [k \in 1..Len(list) |-> Log(msg, path)]

\* JsonFixerCli.printVerboseOutput
PrintVerboseOutput(result, filePath) ==
  <<Log("Processing", filePath), Log("Success", filePath)>>
  \o (IF result.errors # <<>>
      THEN <<Log("Fixed n error(s):", filePath)>> \o ForEach(result.errors, "- type", filePath)
           \o ForEach(result.errors, "Fix", filePath)
      ELSE <<>>)
  \o (IF result.unfixableErrors # <<>>
      THEN <<Log("Unfixable errors:", filePath)>>
           \o ForEach(result.unfixableErrors, "- unfixable", filePath)
      ELSE <<>>)

\* the outcome of a run: the files, what the process did, its exit code and the
\* fields of its remediator
Outcome(fs, trace, exit, this) ==
  [files |-> fs, io |-> trace, exit |-> exit,
   errors |-> this.errors, unfixableErrors |-> this.unfixableErrors]

\* the one element of a set of one element
Only(S) == CHOOSE x \in S : TRUE

\* JsonFixerCli.fixSingleFile
FixSingleFile(options, fs, this) ==
  LET inputPath == Resolve(options.input)
      outputPath == IF options.output # <<>> THEN Resolve(options.output) ELSE inputPath
      \* after the call of the remediator, which returned r
      Remediated(content, r) ==
        LET Done(fs2, trace, exit) ==
              Outcome(fs2,
                      <<Read(inputPath, content)>>
                      \o (IF options.verbose /\ ~r.escaped
                          THEN PrintVerboseOutput(r.result, inputPath) ELSE <<>>)
                      \o trace,
                      exit, r)
        IN  IF r.escaped
            THEN Done(fs, <<Error("Error processing", inputPath)>>, "1")
            ELSE IF ~r.result.success
            THEN Done(fs, <<Error("Failed to fix JSON", inputPath)>>
                          \o [k \in 1..Len(r.result.unfixableErrors) |->
                                Error("- unfixable", inputPath)], "1")
            ELSE IF options.check
            THEN Done(fs, <<Log("JSON is valid", inputPath)>>, "0")
            ELSE IF options.fix /\ r.result.fixedJson # <<>> /\ r.result.fixedJson # content
            THEN Done((outputPath :> r.result.fixedJson) @@ fs,
                      <<Write(outputPath, r.result.fixedJson), Log("Fixed", inputPath)>>
                      \o (IF r.result.errors # <<>>
                          THEN <<Log("Fixed n error(s):", inputPath)>>
                               \o ForEach(r.result.errors, "- description", inputPath)
                          ELSE <<>>),
                      "0")
            ELSE IF r.result.errors # <<>>
            THEN Done(fs, <<Log("Found n fixable error(s)", inputPath)>>
                          \o (IF options.verbose
                              THEN ForEach(r.result.errors, "- description", inputPath)
                              ELSE <<>>), "0")
            ELSE Done(fs, <<Log("JSON is valid", inputPath)>>, "0")
  IN  IF inputPath \notin DOMAIN fs
      THEN Outcome(fs, <<Error("File not found", inputPath)>>, "1", this)
      ELSE \* const result = isPackageJson ? ... : ... (the set binds the value
           \* of the call to r once)
           Only({Remediated(fs[inputPath], r) :
                   r \in {IF EndsWith(inputPath, PackageJson)
                          THEN RemediatePackageJsonOriginal(this, fs[inputPath])
                          ELSE Remediate(JsonRemediator, this, fs[inputPath])}})

\* the files that find . -name "package.json" -not -path "*/node_modules/*"
\* -not -path "*/third_party/*" prints
Found(fs) ==
  {p \in DOMAIN fs :
     /\ StartsWith(p, Cwd \o <<"/">>)
     /\ EndsWith(p, <<"/">> \o PackageJson)
     /\ IndexOf(p, <<"/", "n", "o", "d", "e", "_", "m", "o", "d", "u", "l", "e", "s", "/">>) = 0
     /\ IndexOf(p, <<"/", "t", "h", "i", "r", "d", "_", "p", "a", "r", "t", "y", "/">>) = 0}

RECURSIVE FindOutput(_)
\* the lines of the output of find, as paths relative to the working directory
\* (the file of a directory before the files of its subdirectories)
FindOutput(found) ==
  IF found = {}
  THEN <<>>
  ELSE LET First(p) ==
             <<<<".">> \o SubSeq(p, Len(Cwd) + 1, Len(p))>> \o FindOutput(found \ {p})
       IN  First(CHOOSE p \in found : \A q \in found : Len(p) <= Len(q))

\* the body of the for loop of fixAllPackageJsonFiles for one file: the files
\* and the remediator after it, what it did, and what it adds to the counters
FixOneFile(options, file, fs, this) ==
  LET Remediated(content, r) ==
        LET Done(fs2, lines, fixed, failed) ==
              [files |-> fs2, io |-> <<Read(Resolve(file), content)>> \o lines,
               this |-> [errors |-> r.errors, unfixableErrors |-> r.unfixableErrors],
               fixedCount |-> fixed, errorCount |-> failed]
        IN  IF r.escaped
            THEN Done(fs, <<Error("Error processing", file)>>, 0, 1)
            ELSE IF ~r.result.success
            THEN Done(fs, <<Error("Failed to fix", file)>>, 0, 1)
            ELSE IF r.result.fixedJson # <<>> /\ r.result.fixedJson # content
            THEN IF options.fix
                 THEN Done((Resolve(file) :> r.result.fixedJson) @@ fs,
                           <<Write(Resolve(file), r.result.fixedJson), Log("Fixed", file)>>,
                           1, 0)
                 ELSE Done(fs, <<Log("n fixable error(s)", file)>>, 0, 0)
            ELSE Done(fs, IF options.verbose THEN <<Log("Valid", file)>> ELSE <<>>, 0, 0)
  IN  Only({Remediated(fs[Resolve(file)], r) :
              r \in {RemediatePackageJsonOriginal(this, fs[Resolve(file)])}})

RECURSIVE FixAllFrom(_, _, _, _, _, _, _)
\* the for loop of fixAllPackageJsonFiles from files[k], and the summary
FixAllFrom(options, found, k, fs, this, trace, counts) ==
  IF k > Len(found)
  THEN Outcome(fs, trace \o <<Log(IF options.fix THEN "Summary: Fixed" ELSE "Summary: need fixing",
                                 <<>>)>>, "0", this)
  ELSE LET Continue(one) ==
             FixAllFrom(options, found, k + 1, one.files, one.this, trace \o one.io,
                        [fixedCount |-> counts.fixedCount + one.fixedCount,
                         errorCount |-> counts.errorCount + one.errorCount])
       IN  Only({Continue(one) : one \in {FixOneFile(options, found[k], fs, this)}})

\* JsonFixerCli.fixAllPackageJsonFiles
FixAllPackageJsonFiles(options, fs, this) ==
  IF Found(fs) = {}
  THEN Outcome(fs, <<Log("No package.json files found", <<>>)>>, "0", this)
  ELSE FixAllFrom(options, FindOutput(Found(fs)), 1, fs, this,
                  <<Log("Found n package.json files", <<>>)>>,
                  [fixedCount |-> 0, errorCount |-> 0])

\* the command lines: at most MaxArgs words
MaxArgs == 3
Words ==
  {<<"-", "-", "c", "h", "e", "c", "k">>, <<"-", "c">>, <<"-", "-", "f", "i", "x">>, <<"-", "-", "a", "l", "l">>, <<"-", "o">>, <<"-", "v">>, <<"-", "-", "h", "e", "l", "p">>,
   <<"p", "a", "c", "k", "a", "g", "e", ".", "j", "s", "o", "n">>, <<"d", ".", "j", "s", "o", "n">>, <<".", "/", "o", ".", "j", "s", "o", "n">>}
\* (no word is given twice)
ArgLists ==
  {args \in UNION {[1..n -> Words] : n \in 0..MaxArgs} :
     \A i, j \in 1..Len(args) : args[i] = args[j] => i = j}

\* the contents of a file: a valid manifest, a manifest with a trailing comma,
\* a manifest of one property per line without the comma between them, and a
\* text that the passes do not repair
ValidContent == Manifest(Prop(NameKey, Q(<<"x">>)), Prop(VersionKey, Q(<<"1", ".", "0", ".", "0">>)))
TrailingCommaContent == WithTrailingComma(ValidContent)
MissingCommaContent ==
  <<"{", NL>> \o Prop(NameKey, Q(<<"x">>)) \o <<NL>> \o Prop(VersionKey, Q(<<"1", ".", "0", ".", "0">>))
  \o <<NL, "}">>
BrokenContent == <<"{", "a", ":", "1", "}">>
Contents == {ValidContent, TrailingCommaContent, MissingCommaContent, BrokenContent}

\* the files of the working directory before the run
FileSystems ==
  {root @@ data @@ sub :
     root \in {<<>>} \cup {Resolve(PackageJson) :> c : c \in Contents \ {MissingCommaContent}},
     data \in {<<>>} \cup {Resolve(<<"d", ".", "j", "s", "o", "n">>) :> c :
                           c \in Contents \ {ValidContent}},
     sub \in {<<>>, Resolve(<<"s", "u", "b", "/">> \o PackageJson) :> TrailingCommaContent}}

(***************************************************************************)
(* The state machine: one instance of one of the two classes, and the      *)
(* calls made on it.  A call is made on the input text or on the fixedJson *)
(* the previous call returned.  In the second specification the instance   *)
(* is the remediator of a JsonFixerCli process: argv is its command line,  *)
(* files the files of its working directory, io what it read, wrote and    *)
(* printed, exitCode how it ended.  In the third specification the passes  *)
(* of the instance are applied one at a time: applied lists the            *)
(* applications.                                                           *)
(***************************************************************************)
VARIABLES cls, input, errors, unfixableErrors, calls, argv, files, io, exitCode, applied
vars == <<cls, input, errors, unfixableErrors, calls, argv, files, io, exitCode, applied>>

\* no process has run
Running == "running"

\* at most MaxCalls calls are made on the instance
MaxCalls == 2

Init ==
  /\ cls \in Classes
  /\ input \in Inputs
  /\ errors = <<>>
  /\ unfixableErrors = <<>>
  /\ calls = <<>>
  /\ argv = <<>>
  /\ files = <<>>
  /\ io = <<>>
  /\ exitCode = Running
  /\ applied = <<>>

\* the fields of an instance right after construction
NewInstance == [errors |-> <<>>, unfixableErrors |-> <<>>]

This == [errors |-> errors, unfixableErrors |-> unfixableErrors]

\* the texts the next call may be made on
Arguments ==
  {input} \cup (IF calls = <<>> THEN {} ELSE {calls[Len(calls)].result.fixedJson})

Returned(op, arg, r) ==
  /\ errors' = r.errors
  /\ unfixableErrors' = r.unfixableErrors
  /\ calls' = Append(calls, [op |-> op, arg |-> arg, result |-> r.result,
                             iterations |-> r.iterations, escaped |-> r.escaped])
  /\ UNCHANGED <<cls, input, argv, files, io, exitCode, applied>>

\* remediator.remediate(arg)
CallRemediate(arg) ==
  /\ Len(calls) < MaxCalls
  /\ Returned("remediate", arg, Remediate(cls, This, arg))

\* remediator.remediatePackageJson(arg)
CallRemediatePackageJson(arg) ==
  /\ Len(calls) < MaxCalls
  /\ Returned("remediatePackageJson", arg, RemediatePackageJson(cls, This, arg))

Next ==
  \E arg \in Arguments :
    \/ CallRemediate(arg)
    \/ CallRemediatePackageJson(arg)

Spec == Init /\ [][Next]_vars

\* a JsonFixerCli process about to run on a command line and a working directory
CliInit ==
  /\ cls = JsonRemediator
  /\ input = <<>>
  /\ errors = <<>>
  /\ unfixableErrors = <<>>
  /\ calls = <<>>
  /\ argv \in ArgLists
  /\ files \in FileSystems
  /\ io = <<>>
  /\ exitCode = Running
  /\ applied = <<>>

\* the process ended with outcome r
Ran(r) ==
  /\ files' = r.files
  /\ io' = r.io
  /\ exitCode' = r.exit
  /\ errors' = r.errors
  /\ unfixableErrors' = r.unfixableErrors
  /\ UNCHANGED <<cls, input, calls, argv, applied>>

\* run(args) where parseArgs ends the process: --help, or neither an input
\* file nor --all
RunParseArgsExits ==
  /\ exitCode = Running
  /\ ParseArgs(argv).exit # "none"
  /\ Ran(Outcome(files,
                 IF ParseArgs(argv).exit = "0"
                 THEN <<Log("help", <<>>)>>
                 ELSE <<Error("Input file is required", <<>>), Log("help", <<>>)>>,
                 ParseArgs(argv).exit, This))

\* run(args) without --all
RunFixSingleFile ==
  /\ exitCode = Running
  /\ ParseArgs(argv).exit = "none"
  /\ ~ParseArgs(argv).all
  /\ \E r \in {FixSingleFile(ParseArgs(argv), files, This)} : Ran(r)

\* run(args) with --all
RunFixAllPackageJsonFiles ==
  /\ exitCode = Running
  /\ ParseArgs(argv).exit = "none"
  /\ ParseArgs(argv).all
  /\ \E r \in {FixAllPackageJsonFiles(ParseArgs(argv), files, This)} : Ran(r)

CliNext ==
  \/ RunParseArgsExits
  \/ RunFixSingleFile
  \/ RunFixAllPackageJsonFiles

CliSpec == CliInit /\ [][CliNext]_vars

(***************************************************************************)
(* The passes applied one at a time.                                       *)
(***************************************************************************)
\* lines of a document: properties, array elements, closers and a blank line,
\* at two indentations
DocLines ==
  {Line(1, Prop(<<"a">>, <<" ", "1">>)),
   Line(1, Prop(<<"b">>, <<" ", "2", ",">>)),
   Line(2, Prop(<<"c">>, <<" ", "3">>)),
   Line(1, <<"}">>),
   Line(1, <<"}", ",">>),
   Line(1, Q(<<"x">>)),
   Line(2, Q(<<"y">>)),
   <<>>,
   <<"}">>}

\* documents of at most MaxLines lines
MaxLines == 3
LineDocs == {JoinLines(d) : d \in UNION {[1..n -> DocLines] : n \in 1..MaxLines}}

\* texts with a backslash: the escapes of JSON, and backslashes that start none
EscapeTexts ==
  {Q(<<BSLASH, c>>) : c \in {QUOTE, BSLASH, "/", "b", "f", "n", "r", "t", "a", "u", " "}}
  \cup {Q(<<BSLASH, "u", "0", "0", "4", "1">>), Q(<<BSLASH, "u", "0", "0", "e", "9", "x">>),
        Q(<<"C", ":", BSLASH, "d", "i", "r", BSLASH, "a">>), <<BSLASH>>,
        Q(<<"a", BSLASH, BSLASH, "n", BSLASH, "t">>),
        <<"{">> \o Prop(<<"p">>, Q(<<BSLASH, "w", BSLASH, "d">>)) \o <<"}">>}

\* texts cut off inside objects and arrays, and texts with the word undefined
StructureTexts ==
  {<<"{">> \o Prop(<<"k">>, <<" ", "[", "1">>),
   <<"{", NL>> \o Line(2, Prop(<<"k">>, <<" ", "[">>)) \o <<NL>> \o Line(4, Q(<<"t">>) \o <<",">>)
        \o <<NL>> \o Line(4, Q(<<"p">>)),
   <<"[", "{">> \o Prop(<<"a">>, <<"1">>),
   <<"[", "[", "1">>,
   <<"{">> \o Prop(<<"a">>, <<"{">> \o Prop(<<"b">>, <<"1">>)),
   <<"{">> \o Prop(<<"a">>, <<"1">>),
   <<"[", "1", ",", "2">>,
   <<"{">> \o Prop(<<"a">>, <<"1">>) \o <<"}">>,
   <<"1", "}">>,
   <<"{">> \o Prop(<<"a">>, Undefined),
   <<"{">> \o Prop(<<"a">>, Q(Undefined \o <<" ", "x">>)) \o <<"}">>,
   <<"[">> \o Undefined \o <<",", "1">>}

\* lines in which text follows a comma before a closer
TrailingTexts ==
  {<<"{">> \o Prop(<<"c">>, <<" ", "[", "1", ",", "]", ",", " ">>) \o Prop(<<"d">>, <<" ", "2", "}">>),
   <<"[", "[", "1", ",", "]", ",", "2", "]">>,
   <<"{">> \o Prop(<<"a">>, <<"1", ",", "}">>),
   <<"[", "1", ",", " ", "]">>,
   <<"{", NL>> \o Line(1, Prop(<<"a">>, <<"{", "}", ",">>)) \o <<NL, "}">>,
   <<"[", NL>> \o Line(1, <<"{">> \o Prop(<<"a">>, <<"1">>) \o <<"}", ",">>) \o <<NL>>
        \o Line(1, <<"{">> \o Prop(<<"b">>, <<"2">>) \o <<"}">>) \o <<NL, "]">>,
   <<"[", NL>> \o Line(1, <<"1", " ", " ">>) \o <<NL>> \o Line(1, <<"2">>) \o <<NL, "]">>}

PassInputs == LineDocs \cup EscapeTexts \cup StructureTexts \cup TrailingTexts

\* the texts the passes of an instance of class c are applied to
PassInputsOf(c) == IF c = JsonRemediator THEN PassInputs ELSE StructureTexts

\* at most MaxApplied passes are applied
MaxApplied == 1

PassInit ==
  /\ cls \in Classes
  /\ input \in PassInputsOf(cls)
  /\ errors = <<>>
  /\ unfixableErrors = <<>>
  /\ calls = <<>>
  /\ argv = <<>>
  /\ files = <<>>
  /\ io = <<>>
  /\ exitCode = Running
  /\ applied = <<>>

\* the texts the next pass may be applied to
PassArguments ==
  {input} \cup (IF applied = <<>> THEN {} ELSE {applied[Len(applied)].text})

\* this.<pass>(arg) returned r: its diagnostics were pushed on this.errors
Applied(pass, arg, r) ==
  /\ Len(applied) < MaxApplied
  /\ errors' = errors \o r.errs
  /\ applied' = Append(applied, [pass |-> pass, arg |-> arg, text |-> r.text, errs |-> r.errs])
  /\ UNCHANGED <<cls, input, unfixableErrors, calls, argv, files, io, exitCode>>

ApplyFixMissingQuotes(arg) ==
  Applied("fixMissingQuotes", arg,
          IF cls = JsonRemediator THEN FixMissingQuotes(arg) ELSE FinalFixMissingQuotes(arg))

ApplyFixMissingCommas(arg) ==
  Applied("fixMissingCommas", arg,
          IF cls = JsonRemediator THEN FixMissingCommas(arg) ELSE FinalFixMissingCommas(arg))

ApplyFixTrailingCommas(arg) ==
  Applied("fixTrailingCommas", arg,
          IF cls = JsonRemediator THEN FixTrailingCommas(arg) ELSE FinalFixTrailingCommas(arg))

\* only JsonRemediator has the pass
ApplyFixInvalidEscapes(arg) ==
  /\ cls = JsonRemediator
  /\ Applied("fixInvalidEscapes", arg, FixInvalidEscapes(arg))

ApplyFixMalformedStructures(arg) ==
  Applied("fixMalformedStructures", arg,
          IF cls = JsonRemediator THEN FixMalformedStructures(arg)
          ELSE FinalFixMalformedStructures(arg))

PassNext ==
  \E arg \in PassArguments :
    \/ ApplyFixMissingQuotes(arg)
    \/ ApplyFixMissingCommas(arg)
    \/ ApplyFixTrailingCommas(arg)
    \/ ApplyFixInvalidEscapes(arg)
    \/ ApplyFixMalformedStructures(arg)

PassSpec == PassInit /\ [][PassNext]_vars

(***************************************************************************)
(* Properties.                                                             *)
(***************************************************************************)
Range(seq) == {seq[i] : i \in 1..Len(seq)}
Calls == 1..Len(calls)
IsValidJson(t) == JsonParse(t).ok

\* C1: remediate on a text that is already valid JSON, in both classes, returns
\* success, the text itself as fixedJson, no errors and no unfixable errors,
\* and no repair pass runs.
C1_ValidInputIsReturnedUnchanged ==
  \A i \in Calls :
    (calls[i].op = "remediate" /\ IsValidJson(calls[i].arg))
      => /\ calls[i].result.success
         /\ calls[i].result.fixedJson = calls[i].arg
         /\ calls[i].result.errors = <<>>
         /\ calls[i].result.unfixableErrors = <<>>
         /\ calls[i].iterations = 0

\* remediate has returned for a valid text that the passes would have rewritten
C1_Witness ==
  \E i \in Calls :
    /\ calls[i].op = "remediate"
    /\ IsValidJson(calls[i].arg)
    /\ Len(calls[i].arg) > 2
    /\ FixOf(cls, calls[i].arg).text # calls[i].arg

\* C2 (as claimed): JsonRemediator.remediate is idempotent: remediate on the
\* fixedJson of a remediate result returns no errors and the same fixedJson,
\* whether the first call succeeded or not.
C2_RemediateIsIdempotent ==
  \A i \in Calls :
    (/\ cls = JsonRemediator
     /\ i > 1
     /\ calls[i - 1].op = "remediate"
     /\ calls[i].op = "remediate"
     /\ calls[i].arg = calls[i - 1].result.fixedJson)
      => /\ calls[i].result.errors = <<>>
         /\ calls[i].result.fixedJson = calls[i - 1].result.fixedJson

\* C3: the pass loop of JsonRemediator.fixJsonSyntax runs at most 5 times for
\* every input, and remediate returns a result.
C3_AtMostFiveIterations ==
  \A i \in Calls :
    /\ calls[i].iterations \in 0..5
    /\ calls[i].result.success \in BOOLEAN

\* a JsonRemediator call stopped by the cap: 5 iterations were run and the
\* pipeline would still change the returned text
C3_Witness ==
  \E i \in Calls :
    /\ cls = JsonRemediator
    /\ calls[i].iterations = 5
    /\ FixPipeline(calls[i].result.fixedJson).text # calls[i].result.fixedJson

\* C4: the result of remediate and of remediatePackageJson, in both classes, has
\* success = true exactly when its fixedJson is accepted by the strict parser.
C4_SuccessIffFixedJsonParses ==
  \A i \in Calls : calls[i].result.success <=> IsValidJson(calls[i].result.fixedJson)

\* a call has returned success for a text that did not parse and that the
\* passes rewrote
C4_Witness ==
  \E i \in Calls :
    /\ ~IsValidJson(calls[i].arg)
    /\ calls[i].result.success
    /\ calls[i].result.fixedJson # calls[i].arg

\* C5: when the text the passes produce still fails the strict parse, remediate
\* returns success = false, exactly one unfixable error, which starts with
\* "Failed to parse after remediation: ", and the text of the passes as fixedJson.
C5_UnparsableRepairIsReported ==
  \A i \in Calls :
    LET Reported(call, text) ==
          (/\ call.op = "remediate"
           /\ ~IsValidJson(call.arg)
           /\ ~IsValidJson(text))
            => /\ ~call.result.success
               /\ Len(call.result.unfixableErrors) = 1
               /\ call.result.unfixableErrors[1].prefix = FailedToParse
               /\ call.result.fixedJson = text
    IN  Reported(calls[i], FixOf(cls, calls[i].arg).text)

\* remediate has returned for a text the passes changed without making it parse,
\* as the second call on an instance whose first call also failed
C5_Witness ==
  /\ Len(calls) = 2
  /\ ~calls[1].result.success
  /\ calls[2].op = "remediate"
  /\ ~calls[2].result.success
  /\ calls[2].result.fixedJson # calls[2].arg

\* C6: no call of remediate or remediatePackageJson, in either class, lets an
\* exception escape: every call returns a result.
C6_NoExceptionEscapes ==
  \A i \in Calls : ~calls[i].escaped

\* remediatePackageJson has returned for a text whose parsed value is null, for
\* which reading a field throws
C6_Witness ==
  \E i \in Calls :
    /\ calls[i].op = "remediatePackageJson"
    /\ calls[i].result.success
    /\ JsonParse(calls[i].result.fixedJson).val.k = "null"

\* the value a successful call's fixedJson parses to
ParsedValue(i) == JsonParse(calls[i].result.fixedJson).val
HasMember(v, key) == v.k = "obj" /\ \E m \in 1..Len(v.members) : v.members[m].key = key
IsPackageCall(i) == calls[i].op = "remediatePackageJson" /\ calls[i].result.success

\* C7 (as claimed): when the original or repaired text parses to an object
\* without a version field, the result remediatePackageJson returns, in both
\* classes, has "Missing required field: version" among its unfixable errors,
\* also when the input was valid JSON on entry.
C7_MissingVersionIsReturned ==
  \A i \in Calls :
    (/\ IsPackageCall(i)
     /\ ParsedValue(i).k = "obj"
     /\ ~HasMember(ParsedValue(i), VersionKey))
      => MissingVersion \in Range(calls[i].result.unfixableErrors)

\* C8 (as claimed): when JsonRemediatorFinal.remediatePackageJson parses the text
\* and the parsed value has no non-empty name field (no name member, an empty
\* name string, or a value that is not an object: null, a number, a string, an
\* array), the result has "Missing required field: name" among its unfixable
\* errors.
C8_MissingNameIsReturned ==
  \A i \in Calls :
    (/\ cls = JsonRemediatorFinal
     /\ IsPackageCall(i)
     /\ \/ ParsedValue(i).k # "obj"
        \/ ~HasMember(ParsedValue(i), NameKey)
        \/ GetProp(ParsedValue(i), NameKey) = StrVal(<<>>))
      => MissingName \in Range(calls[i].result.unfixableErrors)

\* ToBoolean(v) is false: undefined, null, false, 0 and the empty string
Falsy(v) ==
  \/ v.k \in {"undefined", "null"}
  \/ v.k = "bool" /\ ~v.b
  \/ v.k = "num" /\ v.zero
  \/ v.k = "str" /\ v.s = <<>>

\* C9 (as claimed): on a parsed object, JsonRemediatorFinal.remediatePackageJson
\* reports "Missing required field: version" exactly when the object has no
\* version field, "Invalid version format ..." exactly when a version field is
\* present and does not start with digits.digits.digits, and never both.
C9_VersionCheckByPresence ==
  \A i \in Calls :
    (cls = JsonRemediatorFinal /\ IsPackageCall(i) /\ ParsedValue(i).k = "obj")
      => LET reported == Range(calls[i].result.unfixableErrors)
             present == HasMember(ParsedValue(i), VersionKey)
             version == GetProp(ParsedValue(i), VersionKey)
         IN  /\ MissingVersion \in reported <=> ~present
             /\ InvalidVersion \in reported <=> (present /\ ~VersionMatches(version))
             /\ ~(MissingVersion \in reported /\ InvalidVersion \in reported)

\* C9 (amended): on a parsed object, "Missing required field: version" is
\* reported exactly when the object has no version field or its version is
\* falsy (empty string, 0, null, false); "Invalid version format ..." exactly
\* when the version is truthy and its string form does not start with
\* digits.digits.digits; and never both.
C9_VersionCheckByTruthiness ==
  \A i \in Calls :
    (cls = JsonRemediatorFinal /\ IsPackageCall(i) /\ ParsedValue(i).k = "obj")
      => LET reported == Range(calls[i].result.unfixableErrors)
             version == GetProp(ParsedValue(i), VersionKey)
         IN  /\ MissingVersion \in reported <=> Falsy(version)
             /\ InvalidVersion \in reported <=> (~Falsy(version) /\ ~VersionMatches(version))
             /\ ~(MissingVersion \in reported /\ InvalidVersion \in reported)

\* JsonRemediatorFinal.remediatePackageJson has returned for an object whose
\* version member is present and falsy
C9_Witness ==
  \E i \in Calls :
    /\ cls = JsonRemediatorFinal
    /\ IsPackageCall(i)
    /\ HasMember(ParsedValue(i), VersionKey)
    /\ Falsy(GetProp(ParsedValue(i), VersionKey))
    /\ MissingVersion \in Range(calls[i].result.unfixableErrors)

\* C10: remediatePackageJson returns the success flag and the fixedJson that
\* remediate returns for the same text; a failed package check changes neither.
C10_PackageChecksAreReportOnly ==
  \A i, j \in Calls :
    (/\ calls[i].op = "remediate"
     /\ calls[j].op = "remediatePackageJson"
     /\ calls[i].arg = calls[j].arg)
      => /\ calls[j].result.success = calls[i].result.success
         /\ calls[j].result.fixedJson = calls[i].result.fixedJson

\* remediate and remediatePackageJson have both returned for the same text, and
\* remediatePackageJson reported a failed package check on a successful result
C10_Witness ==
  \E i, j \in Calls :
    /\ calls[i].op = "remediate"
    /\ calls[j].op = "remediatePackageJson"
    /\ calls[i].arg = calls[j].arg
    /\ calls[j].result.success
    /\ InvalidVersion \in Range(calls[j].result.unfixableErrors)


\* C11 (as claimed): for a one-line object whose two properties with string
\* values are separated by white space only, JsonRemediator.remediate returns
\* success, the input with a comma inserted between the two properties, and
\* exactly one diagnostic, of type missing-comma.
C11_MissingCommaOnOneLineIsInserted ==
  \A i \in Calls : \A m \in AdjacentProperties :
    (/\ cls = JsonRemediator
     /\ calls[i].op = "remediate"
     /\ calls[i].arg = Separated(m, <<" ">>))
      => /\ calls[i].result.success
         /\ calls[i].result.fixedJson \in
              {Separated(m, <<",">>), Separated(m, <<",", " ">>), Separated(m, <<" ", ",">>)}
         /\ calls[i].result.errors = <<MissingComma>>

\* the index of a comma that only white space separates from the closing brace
\* the text ends with (0: there is none)
FinalCommaIndex(t) ==
  LET p == SkipSpaceBack(t, Len(t) - 1)
  IN  IF Len(t) > 1 /\ t[Len(t)] = "}" /\ p > 0 /\ At(t, p) = "," THEN p ELSE 0
RemoveAt(t, p) == SubSeq(t, 1, p - 1) \o SubSeq(t, p + 1, Len(t))

\* C12 (as claimed): for a text that is valid JSON except for one comma before
\* its final closing brace, remediate in both classes returns the text without
\* that comma as fixedJson and exactly one diagnostic, of type trailing-comma.
C12_TrailingCommaIsRemoved ==
  \A i \in Calls :
    LET OneComma(call, p) ==
          (/\ call.op = "remediate"
           /\ p # 0
           /\ ~IsValidJson(call.arg)
           /\ IsValidJson(RemoveAt(call.arg, p)))
            => /\ call.result.fixedJson = RemoveAt(call.arg, p)
               /\ call.result.errors = <<TrailingComma>>
    IN  OneComma(calls[i], FinalCommaIndex(calls[i].arg))

\* C13 (as claimed): an identifier key followed by a colon is quoted where a
\* brace, a comma or the indentation of a line precedes it: for each such text,
\* {a:"1"} among them, remediate in both classes returns the text with the key
\* quoted and exactly one diagnostic, of type missing-quote.
C13_UnquotedKeyIsQuoted ==
  \A i \in Calls : \A c \in UnquotedKeyCases :
    (calls[i].op = "remediate" /\ calls[i].arg = c.text)
      => /\ calls[i].result.fixedJson = c.quoted
         /\ calls[i].result.errors = <<MissingQuote>>

\* C14 (as claimed): for a text that is valid JSON except that its final closing
\* brace is missing, remediate in both classes returns success, the text
\* followed by that one brace and nothing else, and exactly one diagnostic, of
\* type malformed-object.
C14_MissingCloserIsAppended ==
  \A i \in Calls :
    (/\ calls[i].op = "remediate"
     /\ ~IsValidJson(calls[i].arg)
     /\ IsValidJson(calls[i].arg \o <<"}">>))
      => /\ calls[i].result.success
         /\ calls[i].result.fixedJson = calls[i].arg \o <<"}">>
         /\ calls[i].result.errors = <<MalformedObject>>

\* C15 (as claimed): for a valid object d of one property per line and the text
\* t that is d without the commas between its properties,
\* JsonRemediatorFinal.remediate(t) succeeds and its fixedJson parses to the
\* value d parses to.
C15_RepairPreservesData ==
  \A i \in Calls : \A d \in Documents :
    (/\ cls = JsonRemediatorFinal
     /\ calls[i].op = "remediate"
     /\ calls[i].arg = DeleteLineEndCommas(d))
      => /\ calls[i].result.success
         /\ JsonParse(calls[i].result.fixedJson).val = JsonParse(d).val


\* what a fresh instance of the class returns for the operation and argument of
\* a call
FreshCall(call) ==
  IF call.op = "remediate"
  THEN Remediate(cls, NewInstance, call.arg)
  ELSE RemediatePackageJson(cls, NewInstance, call.arg)

\* C16: every call on an instance returns the result that a fresh instance
\* returns for the same operation and input: nothing of an earlier call shows
\* in a later call's result.
C16_NoCrossCallState ==
  \A i \in Calls : calls[i].result = FreshCall(calls[i]).result

\* a second call, on another text, after a call that left diagnostics and a
\* reason in the fields of the instance
C16_Witness ==
  /\ Len(calls) = 2
  /\ calls[1].result.sharedErrors
  /\ calls[1].result.errors # <<>>
  /\ calls[1].result.unfixableErrors # <<>>
  /\ calls[2].arg # calls[1].arg
  /\ calls[2].result.errors # calls[1].result.errors


\* the body of the loop of fixJsonSyntax as a list of passes, first to last
PassOrder ==
  <<"fixMissingQuotes", "fixMissingCommas", "fixTrailingCommas",
    "fixInvalidEscapes", "fixMalformedStructures">>

\* fixed = this.<pass>(fixed)
ApplyPass(pass, fixed) ==
  CASE pass = "fixMissingQuotes" -> FixMissingQuotes(fixed)
    [] pass = "fixMissingCommas" -> FixMissingCommas(fixed)
    [] pass = "fixTrailingCommas" -> FixTrailingCommas(fixed)
    [] pass = "fixInvalidEscapes" -> FixInvalidEscapes(fixed)
    [] pass = "fixMalformedStructures" -> FixMalformedStructures(fixed)

RECURSIVE RunInOrder(_, _, _, _)
\* the passes order[k..] one after the other, each on the whole text of the one
\* before it, from text fixed and diagnostics errs
RunInOrder(order, k, fixed, errs) ==
  \* Len(fixed) is read first so that the text of a pass is evaluated before
  \* the next pass starts
  IF Len(fixed) >= 0 /\ k > Len(order)
  THEN PassResult(fixed, errs)
  ELSE LET Then(p) == RunInOrder(order, k + 1, p.text, errs \o p.errs)
       IN  Then(ApplyPass(order[k], fixed))

RECURSIVE IterateInOrder(_, _, _)
\* n iterations of the passes in PassOrder, from text fixed and diagnostics errs
IterateInOrder(fixed, errs, n) ==
  IF Len(fixed) >= 0 /\ n = 0
  THEN PassResult(fixed, errs)
  ELSE LET Again(q) == IterateInOrder(q.text, errs \o q.errs, n - 1)
       IN  Again(RunInOrder(PassOrder, 1, fixed, <<>>))

\* C19: what a call on a JsonRemediator returns after its pass loop ran is the
\* text and the diagnostics of running, in every iteration, quote
\* normalisation, missing-comma insertion, trailing-comma removal, escape
\* normalisation and structure closing in that order, each pass on the whole
\* output of the pass before it.
C19_PassesRunInOrder ==
  \A i \in Calls :
    LET Same(call, r) ==
          /\ call.result.fixedJson = r.text
          /\ call.result.errors = r.errs
    IN  (cls = JsonRemediator /\ calls[i].iterations > 0)
          => Same(calls[i], IterateInOrder(calls[i].arg, <<>>, calls[i].iterations))

\* a call in which missing-comma insertion and trailing-comma removal both acted
C19_Witness ==
  \E i \in Calls :
    /\ cls = JsonRemediator
    /\ calls[i].iterations > 0
    /\ MissingComma \in Range(calls[i].result.errors)
    /\ TrailingComma \in Range(calls[i].result.errors)

RECURSIVE NoEarlierFixedPoint(_, _)
\* none of the first n - 1 iterations from text s returned its input
NoEarlierFixedPoint(s, n) ==
  \/ n <= 1
  \/ LET Out(r) == r.text # s /\ NoEarlierFixedPoint(r.text, n - 1)
     IN  Out(FixPipeline(s))

\* C20: the pass loop of JsonRemediator never runs another iteration after one
\* whose output equals its input, and it stops only then or after 5
\* iterations: the returned text is a fixed point of the five passes, or
\* exactly 5 iterations ran.
C20_StopsAtFixedPoint ==
  \A i \in Calls :
    (cls = JsonRemediator /\ ~IsValidJson(calls[i].arg))
      => /\ calls[i].iterations <= MaxIterations
         /\ NoEarlierFixedPoint(calls[i].arg, calls[i].iterations)
         /\ \/ calls[i].iterations = MaxIterations
            \/ FixPipeline(calls[i].result.fixedJson).text = calls[i].result.fixedJson

\* a call whose pass loop changed the text and stopped before the limit
C20_Witness ==
  \E i \in Calls :
    /\ cls = JsonRemediator
    /\ calls[i].iterations > 1
    /\ calls[i].iterations < MaxIterations
    /\ calls[i].result.fixedJson # calls[i].arg


\* the write operations of the process
Writes == {k \in 1..Len(io) : io[k].op = "write"}

\* C17 (as claimed): a process that was given --check or -c writes no file, in
\* single-file mode and in --all mode, whatever the other options.
C17_CheckModeNeverWrites ==
  (exitCode # Running /\ ParseArgs(argv).exit = "none" /\ ParseArgs(argv).check)
    => Writes = {}

\* C18 (as claimed): a process in single-file mode with --check that prints
\* "JSON is valid" and ends normally has read a file whose content is valid
\* JSON as it stands.
C18_CheckModeReportsValidOnlyIfValid ==
  (/\ exitCode = "0"
   /\ ParseArgs(argv).exit = "none"
   /\ ~ParseArgs(argv).all
   /\ ParseArgs(argv).check
   /\ \E k \in 1..Len(io) : io[k].op = "log" /\ io[k].msg = "JSON is valid")
    => \A k \in 1..Len(io) : io[k].op = "read" => IsValidJson(io[k].text)


(***************************************************************************)
(* Properties of the passes, checked under PassSpec.                       *)
(***************************************************************************)
\* the applications of one pass
AppliedOf(pass) == {a \in Range(applied) : a.pass = pass}

\* the number of c1 of a text that no c2 matches
Unmatched(t, c1, c2) == CountChar(t, c1) - CountChar(t, c2)

\* the closing braces and brackets of a text, in order
ClosersOf(t) == SelectSeq(t, LAMBDA c : c \in {"}", "]"})

\* the last n elements of a sequence
LastN(t, n) == SubSeq(t, Len(t) - n + 1, Len(t))

\* C21: when a text lacks closing brackets and closing braces,
\* fixMalformedStructures of either class appends every missing ']' before any
\* missing '}' (the closers of its output end with the missing brackets
\* followed by the missing braces), and the text {"k": [1 is repaired to a text
\* that parses.
C21_BracketsBeforeBraces ==
  \A a \in AppliedOf("fixMalformedStructures") :
    LET braces == Unmatched(a.arg, "{", "}")
        brackets == Unmatched(a.arg, "[", "]")
    IN  /\ braces > 0 /\ brackets > 0 =>
             /\ Len(ClosersOf(a.text)) >= braces + brackets
             /\ LastN(ClosersOf(a.text), braces + brackets)
                  = Repeat(<<"]">>, brackets) \o Repeat(<<"}">>, braces)
        /\ a.arg = <<"{">> \o Prop(<<"k">>, <<" ", "[", "1">>) => IsValidJson(a.text)


\* s is a prefix of t
IsPrefix(s, t) == Len(s) <= Len(t) /\ \A p \in 1..Len(s) : t[p] = s[p]

\* C22 as stated: the output of JsonRemediator.fixMalformedStructures has the
\* input text as a prefix (no character of the input is removed or replaced).
C22_OnlyAppends ==
  \A a \in AppliedOf("fixMalformedStructures") :
    cls = JsonRemediator => IsPrefix(a.arg, a.text)

\* C22 as amended: the output of JsonRemediator.fixMalformedStructures is the
\* input text with every whole word undefined replaced by null, followed by
\* nothing but appended newlines and closers; an input without the word
\* undefined is a prefix of the output.
C22_AppendsAfterUndefinedToNull ==
  \A a \in AppliedOf("fixMalformedStructures") :
    cls = JsonRemediator =>
      LET words == {p \in 1..Len(a.arg) : UndefinedAt(a.arg, p)}
          kept == Len(a.arg) - 5 * Cardinality(words)
      IN  /\ IsPrefix(ReplaceUndefinedFrom(a.arg, 1, <<>>), a.text)
          /\ Len(ReplaceUndefinedFrom(a.arg, 1, <<>>)) = kept
          /\ \A p \in (kept + 1)..Len(a.text) : a.text[p] \in {NL, "}", "]"}
          /\ words = {} => IsPrefix(a.arg, a.text)

\* the pass appended a closer to a text with the word undefined
C22_Witness ==
  \E a \in AppliedOf("fixMalformedStructures") :
    /\ cls = JsonRemediator
    /\ Unmatched(a.arg, "{", "}") > 0
    /\ \E p \in 1..Len(a.arg) : UndefinedAt(a.arg, p)
    /\ Len(a.text) = Len(a.arg) - 5 + 2


RECURSIVE EscapesValidFrom(_, _)
\* every backslash of t from index i on starts an escape of JSON: one of
\* \" \\ \/ \b \f \n \r \t, or \u and four hexadecimal digits
EscapesValidFrom(t, i) ==
  LET B == {p \in i..Len(t) : t[p] = BSLASH} IN
  IF B = {} THEN TRUE
  ELSE IF At(t, Min(B) + 1) \in {QUOTE, BSLASH, "/", "b", "f", "n", "r", "t"}
  THEN EscapesValidFrom(t, Min(B) + 2)
  ELSE IF At(t, Min(B) + 1) = "u" /\ \A k \in 2..5 : IsHex(At(t, Min(B) + k))
  THEN EscapesValidFrom(t, Min(B) + 6)
  ELSE FALSE

\* C23: for every text in which each backslash starts a valid JSON escape,
\* JsonRemediator.fixInvalidEscapes returns the text unchanged.
C23_ValidEscapesAreKept ==
  \A a \in AppliedOf("fixInvalidEscapes") :
    EscapesValidFrom(a.arg, 1) => a.text = a.arg


InvalidEscape == "invalid-escape"

\* the number of elements of a sequence equal to x
Count(seq, x) == Cardinality({i \in 1..Len(seq) : seq[i] = x})

\* C24: each backslash that JsonRemediator.fixInvalidEscapes doubles adds
\* exactly one diagnostic of type invalid-escape to this.errors, the list
\* remediate returns as the errors of its result: the pass pushes as many
\* invalid-escape diagnostics as it adds backslashes.
C24_EscapeRewritesAreAudited ==
  \A a \in AppliedOf("fixInvalidEscapes") :
    Count(a.errs, InvalidEscape) = Len(a.text) - Len(a.arg)


\* the index of the first line after line i that is not blank, 0 if there is none
NextNonEmpty(lines, i) ==
  LET J == {j \in (i + 1)..Len(lines) : Trim(lines[j]) # <<>>} IN
  IF J = {} THEN 0 ELSE Min(J)

\* a trimmed line that is a property or an array element: it starts a string,
\* a number, a literal, an object or an array
ElementShape(trimmed) ==
  \/ IsDigit(At(trimmed, 1))
  \/ At(trimmed, 1) \in {QUOTE, "{", "[", "-"}
  \/ \E w \in {<<"t", "r", "u", "e">>, <<"f", "a", "l", "s", "e">>, <<"n", "u", "l", "l">>} :
       StartsWith(trimmed, w)

\* a trimmed line that starts with a closer
CloserShape(trimmed) == At(trimmed, 1) \in {"}", "]"}

\* line i ends in '},' or '],'
EndsInCloserComma(line) ==
  EndsWith(Trim(line), <<"}", ",">>) \/ EndsWith(Trim(line), <<"]", ",">>)

\* C25: for a line ending in '},' or '],', JsonRemediator.fixTrailingCommas
\* keeps the comma whenever the next non-empty line is a property or an array
\* element at shallower or equal indentation, and strips it only when the next
\* non-empty line is indented deeper or is a closer.
C25_SiblingCommaIsKept ==
  \A a \in AppliedOf("fixTrailingCommas") :
    cls = JsonRemediator =>
      \A i \in 1..Len(SplitLines(a.arg)) :
        LET lines == SplitLines(a.arg)
            out == SplitLines(a.text)
            n == NextNonEmpty(lines, i)
            kept == i <= Len(out) /\ EndsWith(Trim(out[i]), <<",">>)
        IN  EndsInCloserComma(lines[i]) /\ n > 0 =>
              /\ IndentLen(lines[n]) <= IndentLen(lines[i]) /\ ElementShape(Trim(lines[n]))
                   => kept
              /\ ~kept => \/ IndentLen(lines[n]) > IndentLen(lines[i])
                          \/ CloserShape(Trim(lines[n]))


RECURSIVE CommasDeleted(_, _, _, _)
\* t from index i on is s from index j on with zero or more commas deleted
CommasDeleted(t, i, s, j) ==
  IF j > Len(s) THEN i > Len(t)
  ELSE IF i <= Len(t) /\ t[i] = s[j] THEN CommasDeleted(t, i + 1, s, j + 1)
  ELSE s[j] = "," /\ CommasDeleted(t, i, s, j + 1)

\* C26: the output of JsonRemediator.fixTrailingCommas is the input with zero
\* or more comma characters deleted, every other character kept in its
\* original order; the part of a line that follows a repaired ',}' or ',]' is
\* kept.
C26_OnlyCommasAreDeleted ==
  \A a \in AppliedOf("fixTrailingCommas") :
    cls = JsonRemediator => CommasDeleted(a.text, 1, a.arg, 1)


\* C27: a run of JsonRemediator.fixMissingCommas appends as many missing-comma
\* diagnostics as it inserts commas, and a run of
\* JsonRemediator.fixTrailingCommas appends as many trailing-comma diagnostics
\* as it removes commas (never two diagnostics for the same comma).
C27_DiagnosticsCountEdits ==
  /\ \A a \in AppliedOf("fixMissingCommas") :
       cls = JsonRemediator =>
         /\ Count(a.errs, MissingComma) = CountChar(a.text, ",") - CountChar(a.arg, ",")
         /\ Len(a.errs) = Count(a.errs, MissingComma)
  /\ \A a \in AppliedOf("fixTrailingCommas") :
       cls = JsonRemediator =>
         /\ Count(a.errs, TrailingComma) = CountChar(a.arg, ",") - CountChar(a.text, ",")
         /\ Len(a.errs) = Count(a.errs, TrailingComma)


\* C28: JsonRemediator.fixMissingCommas never appends a comma to a line when
\* the next non-empty line is indented more deeply than that line: the line
\* is returned as it was.
C28_NoCommaBeforeNestedChild ==
  \A a \in AppliedOf("fixMissingCommas") :
    cls = JsonRemediator =>
      \A i \in 1..Len(SplitLines(a.arg)) :
        LET lines == SplitLines(a.arg)
            out == SplitLines(a.text)
            n == NextNonEmpty(lines, i)
        IN  n > 0 /\ IndentLen(lines[n]) > IndentLen(lines[i]) =>
              i <= Len(out) /\ out[i] = lines[i]


\* a line that holds a property and does not end in a comma or an opener
PropertyLine(line) ==
  /\ LooksLikeProperty(line)
  /\ ~EndsWith(Trim(line), <<",">>)
  /\ ~EndsWith(Trim(line), <<"{">>)
  /\ ~EndsWith(Trim(line), <<"[">>)

\* C29: when two sibling property lines at the same indentation lack the
\* comma between them and only blank lines separate them,
\* JsonRemediator.fixMissingCommas appends the comma to the first of them.
C29_BlankLinesAreSkipped ==
  \A a \in AppliedOf("fixMissingCommas") :
    cls = JsonRemediator =>
      \A i \in 1..Len(SplitLines(a.arg)) :
        LET lines == SplitLines(a.arg)
            out == SplitLines(a.text)
            n == NextNonEmpty(lines, i)
        IN  /\ PropertyLine(lines[i])
            /\ n > i + 1
            /\ LooksLikeProperty(lines[n])
            /\ IndentLen(lines[n]) = IndentLen(lines[i])
            => i <= Len(out) /\ out[i] = lines[i] \o <<",">>


\* C30: every diagnostic reflects an applied fix: when
\* JsonRemediator.remediate(t) returns a non-empty errors list, the returned
\* fixedJson differs from t (no diagnostics are recorded for a comma that one
\* pass inserts and a later pass removes again).
C30_DiagnosticsMeanChange ==
  \A i \in 1..Len(calls) :
    /\ cls = JsonRemediator
    /\ calls[i].op = "remediate"
    /\ calls[i].result.errors # <<>>
    => calls[i].result.fixedJson # calls[i].arg

====
